---------------------------- MODULE Spec2Model ----------------------------
(***************************************************************************)
(* Verification model of the CurveBuilderToy curve engine:                 *)
(*   src/src/core/curve.py        YieldCurve                               *)
(*   src/src/core/instruments.py  Instrument, IRSwap, IRFuture             *)
(*                                                                         *)
(* Numbers.  Python floats are modelled by exact fractions <<n, d>> with   *)
(* d > 0 in lowest terms, extended by the IEEE specials the code can       *)
(* produce without raising: NaN = <<0,0>>, +Inf = <<1,0>>, -Inf = <<-1,0>>.*)
(* Tenors and dates are whole ticks, TicksPerYear ticks to a year.         *)
(* np.exp / np.log are modelled by the Cayley pair                         *)
(*   exp(y) ~ (2+y)/(2-y),   log(d) ~ 2(d-1)/(d+1)                         *)
(* which are exact inverses of one another (as log is of exp), map 0 to 1, *)
(* and are positive and strictly increasing on the modelled range |y| < 2. *)
(***************************************************************************)
EXTENDS Integers, Sequences, FiniteSets, TLC

(***************************************************************************)
(* Bounds of the model.                                                    *)
(***************************************************************************)
\* node tenors are drawn from 1..MaxTenor ticks, query tenors from 0..MaxTenor+1
MaxTenor == 4
\* node rates are drawn from 0..MaxRate rate steps
MaxRate == 1
\* parallel shifts are drawn from 1..MaxShift shift steps, up and down
MaxShift == 1
\* swap start dates are drawn from 0..MaxStart ticks
MaxStart == 3
\* swap maturities are drawn from 0..MaxMaturity ticks
MaxMaturity == 8
\* a session is at most MaxCalls calls, constructors included
MaxCalls == 3
\* bootstrap calls take up to MaxInstruments instruments and prices, and up
\* to MaxQuotes swap quotes
MaxInstruments == 2
MaxQuotes == 3
\* the diagnostics take up to MaxCoverage instruments
MaxCoverage == 3
\* the bisection of _bootstrap_single_rate halves its interval BisectionSteps
\* times (50 times in the source, which 32-bit fractions cannot hold)
BisectionSteps == 6
\* the bisection is tried on known present values k/40, k up to MaxKnownPv
MaxKnownPv == 16

\* ticks per year (quarters), so that 1/frequency is whole for frequency 1, 2, 4
TicksPerYear == 2 * 2
\* one rate step, as a fraction: 1/RateDen (10%)
RateDen == 5 * 2

(***************************************************************************)
(* Float arithmetic on fractions.                                          *)
(***************************************************************************)
Abs(n) == IF n < 0 THEN -n ELSE n
Sign(n) == IF n < 0 THEN -1 ELSE IF n > 0 THEN 1 ELSE 0

RECURSIVE GCD(_, _)
GCD(a, b) == IF b = 0 THEN a ELSE GCD(b, a % b)

NaN == <<0, 0>>
PosInf == <<1, 0>>
NegInf == <<-1, 0>>

\* n/d in lowest terms with a positive denominator; g is gcd(|n|, |d|)
Reduce(n, d, g) ==
    IF d < 0 THEN <<(-n) \div g, (-d) \div g>> ELSE <<n \div g, d \div g>>
RNorm(n, d) ==
    IF d = 0 THEN <<Sign(n), 0>> ELSE Reduce(n, d, GCD(Abs(n), Abs(d)))

R(n) == <<n, 1>>
IsNaN(a) == a = NaN
IsFinite(a) == a[2] # 0

\* sums and products reduce by common factors before they multiply:
\* g is the gcd of the two denominators
AddOver(a, b, g) ==
    RNorm(a[1] * (b[2] \div g) + b[1] * (a[2] \div g), (a[2] \div g) * b[2])
RAdd(a, b) ==
    IF a[2] = 0 /\ b[2] = 0
    THEN (IF a = b THEN a ELSE NaN)
    ELSE AddOver(a, b, GCD(a[2], b[2]))
RNeg(a) == <<-a[1], a[2]>>
RSub(a, b) == RAdd(a, RNeg(b))
\* g1 = gcd(|a1|, b2) and g2 = gcd(|b1|, a2)
MulOver(a, b, g1, g2) ==
    RNorm((a[1] \div g1) * (b[1] \div g2), (a[2] \div g2) * (b[2] \div g1))
RMul(a, b) ==
    IF a[2] = 0 \/ b[2] = 0
    THEN <<Sign(a[1]) * Sign(b[1]), 0>>
    ELSE MulOver(a, b, GCD(Abs(a[1]), b[2]), GCD(Abs(b[1]), a[2]))
\* numpy float division: x/0 is +-Inf, 0/0 is NaN, nothing is raised
Recip(b) == IF b[1] < 0 THEN <<-b[2], -b[1]>> ELSE <<b[2], b[1]>>
RDiv(a, b) == RMul(a, Recip(b))
RLt(a, b) ==
    /\ ~IsNaN(a) /\ ~IsNaN(b)
    /\ IF a[2] = 0 \/ b[2] = 0
       THEN (a # b /\ (a = NegInf \/ b = PosInf))
       ELSE a[1] * b[2] < b[1] * a[2]
RLe(a, b) == ~IsNaN(a) /\ (a = b \/ RLt(a, b))

RECURSIVE RSum(_)
RSum(s) == IF s = <<>> THEN R(0) ELSE RAdd(Head(s), RSum(Tail(s)))

\* a tenor in ticks as a float number of years
Years(t) == RNorm(t, TicksPerYear)

\* np.exp and np.log on fractions: the first-order pair exp(y) = 1 + y and
\* log(d) = d - 1, each the inverse of the other; exp underflows to 0 from
\* y = -1 down, log(0) is -Inf and the log of a negative number is NaN
NpExp(y) ==
    IF ~IsFinite(y) THEN (IF y = NegInf THEN R(0) ELSE y)
    ELSE IF RLe(y, R(-1)) THEN R(0)
    ELSE RAdd(R(1), y)
NpLog(d) ==
    IF IsNaN(d) \/ RLt(d, R(0)) THEN NaN
    ELSE IF d = R(0) THEN NegInf
    ELSE IF d = PosInf THEN PosInf
    ELSE RSub(d, R(1))

(***************************************************************************)
(* Python sequences (0-based, negative indices count from the end).        *)
(***************************************************************************)
Py(s, i) == IF i < 0 THEN s[Len(s) + i + 1] ELSE s[i + 1]
\* s[:k] and s[k:]
Upto(s, k) == SubSeq(s, 1, k)
From(s, k) == SubSeq(s, k + 1, Len(s))

\* np.searchsorted(x, t, side) on an ascending x
searchsorted(x, t, side) ==
    IF side = "right"
    THEN Cardinality({i \in DOMAIN x : x[i] <= t})
    ELSE Cardinality({i \in DOMAIN x : x[i] < t})

\* np.clip(i, lo, hi) = minimum(hi, maximum(i, lo))
Clip(i, lo, hi) == IF i < lo THEN (IF lo > hi THEN hi ELSE lo) ELSE IF i > hi THEN hi ELSE i

\* np.isclose(a, b): |a - b| <= atol + rtol * |b|, atol = 1e-8, rtol = 1e-5 (years)
IsClose(a, b) == Abs(a - b) * 100000000 <= TicksPerYear + 1000 * Abs(b)

(***************************************************************************)
(* scipy.interpolate.interp1d(x, y, kind, fill_value='extrapolate').       *)
(* An interpolator object is a record; id tells one object from another    *)
(* (Python compares interpolators by identity).                            *)
(***************************************************************************)
NoInterp == [id |-> "None", kind |-> "None", x |-> <<>>, y |-> <<>>]

\* what the constructor raises: fewer than one (spline: order + 1) entries is a
\* ValueError; kind='previous' takes y[-1] as its right fill value first
interp1d_error(x, kind) ==
    IF Len(x) = 0 THEN (IF kind = "previous" THEN "IndexError" ELSE "ValueError")
    ELSE IF kind = "cubic" /\ Len(x) < 4 THEN "ValueError"
    ELSE ""

interp1d(id, x, y, kind) == [id |-> id, kind |-> kind, x |-> x, y |-> y]

\* interp1d._call_linear: the segment is chosen by searchsorted and clip, and
\* the value is slope * (t - x_lo) + y_lo; a single node gives lo = -1, hi = 0
\* and the slope 0/0
linear_segment(x, y, t, lo, hi) ==
    RAdd(RMul(RDiv(RSub(Py(y, hi), Py(y, lo)), R(Py(x, hi) - Py(x, lo))),
              R(t - Py(x, lo))),
         Py(y, lo))
linear_from(x, y, t, hi) == linear_segment(x, y, t, hi - 1, hi)
call_linear(f, t) ==
    linear_from(f.x, f.y, t, Clip(searchsorted(f.x, t, "left"), 1, Len(f.x) - 1))

\* kind='cubic' is make_interp_spline(x, y, k=3): the not-a-knot cubic spline,
\*   s(t) = L(t) + d w(t) + SUM_{j=3..N-2} c_j max(t - x_j, 0)^3
\* with L the parabola through the first three nodes, w(t) = (t-x1)(t-x2)(t-x3),
\* and d, c_j fixed by the remaining N - 3 nodes; beyond the end nodes the
\* boundary polynomial is extended.
Cube(n) == n * n * n
\* the divided difference (b - a) / h
DivDiff(a, b, h) == RDiv(RSub(b, a), R(h))
\* Newton's form of the parabola, from its first divided differences
Newton(x, y, t, dd12, dd23) ==
    RAdd(y[1], RAdd(RMul(dd12, R(t - x[1])),
                    RMul(DivDiff(dd12, dd23, x[3] - x[1]), R((t - x[1]) * (t - x[2])))))
SplineL(x, y, t) ==
    Newton(x, y, t, DivDiff(y[1], y[2], x[2] - x[1]), DivDiff(y[2], y[3], x[3] - x[2]))
SplineW(x, t) == (t - x[1]) * (t - x[2]) * (t - x[3])

\* c_j = SplineA(j) + SplineB(j) * d, from the row of node j + 1
RECURSIVE SplineA(_, _, _)
SplineA(x, y, j) ==
    RDiv(RSub(RSub(y[j + 1], SplineL(x, y, x[j + 1])),
              RSum([i \in 1..(j - 3) |->
                      RMul(SplineA(x, y, i + 2), R(Cube(x[j + 1] - x[i + 2])))])),
         R(Cube(x[j + 1] - x[j])))
RECURSIVE SplineB(_, _)
SplineB(x, j) ==
    RDiv(RSub(R(-SplineW(x, x[j + 1])),
              RSum([i \in 1..(j - 3) |->
                      RMul(SplineB(x, i + 2), R(Cube(x[j + 1] - x[i + 2])))])),
         R(Cube(x[j + 1] - x[j])))
\* c_j for j = 3..N-2, as the list [c_3, ..., c_{N-2}], given d
SplineC(x, y, d) ==
    [i \in 1..(Len(x) - 4) |-> RAdd(SplineA(x, y, i + 2), RMul(SplineB(x, i + 2), d))]
\* d from the row of the last node: SplineA and SplineB at j = N - 1 are that
\* row's right-hand side and coefficient of d, up to the common divisor
SplineD(x, y) == RNeg(RDiv(SplineA(x, y, Len(x) - 1), SplineB(x, Len(x) - 1)))
spline_value(x, t, L, d, c) ==
    RAdd(L, RAdd(RMul(d, R(SplineW(x, t))),
                 RSum([i \in DOMAIN c |->
                         IF t > x[i + 2] THEN RMul(c[i], R(Cube(t - x[i + 2]))) ELSE R(0)])))
spline_with(x, y, t, d) == spline_value(x, t, SplineL(x, y, t), d, SplineC(x, y, d))
call_spline(f, t) == spline_with(f.x, f.y, t, SplineD(f.x, f.y))

\* interpolator(tenor); calling None is a TypeError, handled by the callers
interp1d_call(f, t) ==
    IF f.kind = "cubic" THEN call_spline(f, t) ELSE call_linear(f, t)


(***************************************************************************)
(* YieldCurve (src/src/core/curve.py).                                     *)
(* A call returns [err, ...]: err = "" when it returns normally, else the  *)
(* name of the exception that leaves it.                                   *)
(***************************************************************************)
\* cutoff_tenor = None
NoCutoff == -1

Ok(v) == [err |-> "", val |-> v]
Raise(e) == [err |-> e, val |-> NaN]

\* a variant of the tenor check that lets equal neighbours pass
NonDecreasing(s) == \A i \in 1..(Len(s) - 1) : s[i + 1] - s[i] >= 0

\* np.all(np.diff(tenors) > 0)
StrictlyIncreasing(s) == \A i \in 1..(Len(s) - 1) : s[i + 1] - s[i] > 0

\* np.exp(-tenors * rates)
discount_factors(tenors, rates) ==
    [i \in DOMAIN tenors |-> NpExp(RNeg(RMul(Years(tenors[i]), rates[i])))]

\* lines 34-39: the attributes as __init__ stores them, no interpolator yet
NewObject(tenors, rates, method, cutoff, pre, post) ==
    [tenors |-> tenors, rates |-> rates,
     interpolation_method |-> method, cutoff_tenor |-> cutoff,
     pre_cutoff_method |-> pre, post_cutoff_method |-> post,
     interpolator |-> NoInterp, discount_interpolator |-> NoInterp,
     pre_tenors |-> <<>>, pre_rates |-> <<>>,
     post_tenors |-> <<>>, post_rates |-> <<>>,
     pre_interpolator |-> NoInterp, post_interpolator |-> NoInterp]

NoCurve == NewObject(<<>>, <<>>, "None", NoCutoff, "None", "None")

create_single_interpolator(id, tenors, rates, method) ==
    IF method = "linear"
    THEN [err |-> "", f |-> interp1d(id, tenors, rates, "linear")]
    ELSE IF method = "cubic"
    THEN (IF Len(tenors) < 4
          THEN [err |-> "", f |-> interp1d(id, tenors, rates, "linear")]
          ELSE [err |-> "", f |-> interp1d(id, tenors, rates, "cubic")])
    ELSE IF method = "flat"
    THEN [err |-> "", f |-> interp1d(id, tenors, rates, "previous")]
    ELSE IF method = "log_linear"
    THEN [err |-> "", f |-> interp1d(id, tenors, discount_factors(tenors, rates), "linear")]
    ELSE [err |-> "ValueError", f |-> NoInterp]

\* lines 102-113: the cutoff becomes a node of both ranges, with the rate the
\* linear interpolator gives it
split_inserting(tenors, rates, cutoff, cutoff_idx, cutoff_rate) ==
    [pre_tenors |-> Append(Upto(tenors, cutoff_idx), cutoff),
     pre_rates |-> Append(Upto(rates, cutoff_idx), cutoff_rate),
     post_tenors |-> <<cutoff>> \o From(tenors, cutoff_idx),
     post_rates |-> <<cutoff_rate>> \o From(rates, cutoff_idx)]

\* lines 114-120: the cutoff is the node at exact_idx, which both ranges keep
split_at_node(tenors, rates, exact_idx) ==
    [pre_tenors |-> Upto(tenors, exact_idx + 1),
     pre_rates |-> Upto(rates, exact_idx + 1),
     post_tenors |-> From(tenors, exact_idx),
     post_rates |-> From(rates, exact_idx)]

\* np.where(np.isclose(self.tenors, self.cutoff_tenor))[0][0]
first_close(tenors, cutoff) ==
    (CHOOSE i \in DOMAIN tenors :
        /\ IsClose(tenors[i], cutoff)
        /\ \A j \in 1..(i - 1) : ~IsClose(tenors[j], cutoff)) - 1

\* lines 88-120, cutoff_idx given
split_at(tenors, rates, cutoff, cutoff_idx) ==
    IF cutoff_idx = 0
    THEN [pre_tenors |-> <<>>, pre_rates |-> <<>>,
          post_tenors |-> tenors, post_rates |-> rates]
    ELSE IF cutoff_idx >= Len(tenors)
    THEN [pre_tenors |-> tenors, pre_rates |-> rates,
          post_tenors |-> <<>>, post_rates |-> <<>>]
    ELSE IF ~(\E i \in DOMAIN tenors : IsClose(tenors[i], cutoff))
    THEN split_inserting(tenors, rates, cutoff, cutoff_idx,
                         call_linear(interp1d("temp", tenors, rates, "linear"), cutoff))
    ELSE split_at_node(tenors, rates, first_close(tenors, cutoff))

\* lines 85-120: the two node ranges
hybrid_split(self) ==
    split_at(self.tenors, self.rates, self.cutoff_tenor,
             searchsorted(self.tenors, self.cutoff_tenor, "right"))

\* lines 122-136, for one range
range_interpolator(id, tenors, rates, method) ==
    IF Len(tenors) > 0
    THEN create_single_interpolator(id, tenors, rates, method)
    ELSE [err |-> "", f |-> NoInterp]

\* the object with its two ranges and their interpolators, unless one raised
hybrid_object(self, sp, pre, post) ==
    IF pre.err # "" THEN [err |-> pre.err, obj |-> NoCurve]
    ELSE IF post.err # "" THEN [err |-> post.err, obj |-> NoCurve]
    ELSE [err |-> "",
          obj |-> [self EXCEPT !.pre_tenors = sp.pre_tenors,
                               !.pre_rates = sp.pre_rates,
                               !.post_tenors = sp.post_tenors,
                               !.post_rates = sp.post_rates,
                               !.pre_interpolator = pre.f,
                               !.post_interpolator = post.f]]

hybrid_from_split(self, sp) ==
    hybrid_object(self, sp,
        range_interpolator("pre", sp.pre_tenors, sp.pre_rates, self.pre_cutoff_method),
        range_interpolator("post", sp.post_tenors, sp.post_rates, self.post_cutoff_method))

\* lines 83-136
create_hybrid_interpolators(self) == hybrid_from_split(self, hybrid_split(self))

\* the kind of interp1d lines 52-72 ask for
interp1d_kind(self) ==
    IF self.interpolation_method = "flat" THEN "previous"
    ELSE IF self.interpolation_method = "cubic" /\ Len(self.tenors) >= 4 THEN "cubic"
    ELSE "linear"

\* the object with the interpolator of lines 52-72, unless interp1d raised e
plain_object(self, kind, e) ==
    IF e # "" THEN [err |-> e, obj |-> NoCurve]
    ELSE IF self.interpolation_method = "log_linear"
    THEN [err |-> "",
          obj |-> [self EXCEPT !.discount_interpolator =
                     interp1d("main", self.tenors,
                              discount_factors(self.tenors, self.rates), "linear")]]
    ELSE [err |-> "",
          obj |-> [self EXCEPT !.interpolator =
                     interp1d("main", self.tenors, self.rates, kind)]]

\* lines 50-81
create_interpolator(self) ==
    IF self.interpolation_method \in {"linear", "cubic", "flat", "log_linear"}
    THEN plain_object(self, interp1d_kind(self),
                      interp1d_error(self.tenors, interp1d_kind(self)))
    ELSE IF self.interpolation_method = "hybrid"
    THEN (IF self.cutoff_tenor = NoCutoff
          THEN [err |-> "ValueError", obj |-> NoCurve]
          ELSE create_hybrid_interpolators(self))
    ELSE [err |-> "ValueError", obj |-> NoCurve]

\* lines 16-48: YieldCurve(tenors, rates, interpolation_method, cutoff_tenor,
\* pre_cutoff_method, post_cutoff_method)
YieldCurve(tenors, rates, method, cutoff, pre, post) ==
    IF Len(tenors) # Len(rates) THEN [err |-> "ValueError", obj |-> NoCurve]
    ELSE IF ~StrictlyIncreasing(tenors) THEN [err |-> "ValueError", obj |-> NoCurve]
    ELSE create_interpolator(NewObject(tenors, rates, method, cutoff, pre, post))

\* a variant of the step function that searches from the left
flat_rate_left(tenors, rates, tenor) ==
    IF tenor <= Py(tenors, 0) THEN Py(rates, 0)
    ELSE IF tenor >= Py(tenors, -1) THEN Py(rates, -1)
    ELSE Py(rates, searchsorted(tenors, tenor, "left") - 1)

\* the step function of lines 171-178 and 203-209
flat_rate(tenors, rates, tenor) ==
    IF tenor <= Py(tenors, 0) THEN Py(rates, 0)
    ELSE IF tenor >= Py(tenors, -1) THEN Py(rates, -1)
    ELSE Py(rates, searchsorted(tenors, tenor, "right") - 1)

\* a variant of lines 203-209 whose search is from the left
range_flat_rate_left(tenors, rates, tenor) ==
    IF Len(tenors) = 0 THEN Raise("IndexError") ELSE Ok(flat_rate_left(tenors, rates, tenor))

\* lines 203-209; tenors[0] of an empty range is an IndexError
range_flat_rate(tenors, rates, tenor) ==
    IF Len(tenors) = 0 THEN Raise("IndexError") ELSE Ok(flat_rate(tenors, rates, tenor))

\* -np.log(df) / tenor
rate_of_df(df, tenor) == RDiv(RNeg(NpLog(df)), Years(tenor))

\* lines 210-215: what the interpolator's value is turned into
interpolated_rate(method, value, tenor) ==
    IF method = "log_linear" THEN rate_of_df(value, tenor) ELSE value

\* lines 194-215
get_rate_from_interpolator(self, tenor, interpolator, method) ==
    IF method = "flat"
    THEN range_flat_rate(
             IF interpolator = self.pre_interpolator
             THEN self.pre_tenors ELSE self.post_tenors,
             IF interpolator = self.pre_interpolator
             THEN self.pre_rates ELSE self.post_rates,
             tenor)
    ELSE IF interpolator = NoInterp THEN Raise("TypeError")
    ELSE Ok(interpolated_rate(method, interp1d_call(interpolator, tenor), tenor))

\* lines 181-190: the pre-cutoff side answers up to the cutoff unless it has
\* no interpolator, and beyond the cutoff when the post-cutoff side has none
answers_pre(self, tenor) ==
    IF tenor <= self.cutoff_tenor
    THEN self.pre_interpolator # NoInterp
    ELSE self.post_interpolator = NoInterp

\* lines 179-190, the side given
hybrid_rate(self, tenor, pre) ==
    get_rate_from_interpolator(self, tenor,
        IF pre THEN self.pre_interpolator ELSE self.post_interpolator,
        IF pre THEN self.pre_cutoff_method ELSE self.post_cutoff_method)

\* lines 155-192
get_rate(self, tenor) ==
    IF self.interpolation_method = "log_linear"
    THEN Ok(rate_of_df(interp1d_call(self.discount_interpolator, tenor), tenor))
    ELSE IF self.interpolation_method = "flat"
    THEN Ok(flat_rate(self.tenors, self.rates, tenor))
    ELSE IF self.interpolation_method = "hybrid"
    THEN hybrid_rate(self, tenor, answers_pre(self, tenor))
    ELSE Ok(interp1d_call(self.interpolator, tenor))

\* np.exp(-rate * tenor), unless get_rate raised
discount_of(rate, tenor) ==
    IF rate.err # "" THEN rate
    ELSE Ok(NpExp(RMul(RNeg(rate.val), Years(tenor))))

\* lines 217-228
get_discount_factor(self, tenor) == discount_of(get_rate(self, tenor), tenor)

\* np.log(df_start / df_end) / (end_tenor - start_tenor), unless one raised
forward_of(df_start, df_end, start_tenor, end_tenor) ==
    IF df_start.err # "" THEN df_start
    ELSE IF df_end.err # "" THEN df_end
    ELSE Ok(RDiv(NpLog(RDiv(df_start.val, df_end.val)),
                 Years(end_tenor - start_tenor)))

\* a variant of get_forward_rate that refuses only a start after the end
get_forward_rate_start_after(self, start_tenor, end_tenor) ==
    IF start_tenor > end_tenor THEN Raise("ValueError")
    ELSE forward_of(get_discount_factor(self, start_tenor),
                    get_discount_factor(self, end_tenor), start_tenor, end_tenor)

\* lines 230-249
get_forward_rate(self, start_tenor, end_tenor) ==
    IF start_tenor >= end_tenor THEN Raise("ValueError")
    ELSE forward_of(get_discount_factor(self, start_tenor),
                    get_discount_factor(self, end_tenor), start_tenor, end_tenor)

\* the first error of a list of outcomes, "" when there is none
FirstErr(outs) ==
    IF \E i \in DOMAIN outs : outs[i].err # ""
    THEN outs[CHOOSE i \in DOMAIN outs :
                /\ outs[i].err # ""
                /\ \A j \in 1..(i - 1) : outs[j].err = ""].err
    ELSE ""
Vals(outs) == [i \in DOMAIN outs |-> outs[i].val]

\* (1.0 - principal_pv) / coupon_pv * frequency, unless a discount factor raised
par_of(coupons, principal_pv, frequency) ==
    IF FirstErr(coupons) # "" THEN Raise(FirstErr(coupons))
    ELSE IF principal_pv.err # "" THEN principal_pv
    ELSE Ok(RMul(RDiv(RSub(R(1), principal_pv.val), RSum(Vals(coupons))),
                 R(frequency)))

\* the discount factors of the loop of lines 271-273
coupon_dfs(self, periods, period_size) ==
    [i \in 1..periods |-> get_discount_factor(self, i * period_size)]

\* lines 251-281; int(tenor * frequency) truncates
curve_get_par_rate(self, tenor, frequency) ==
    IF tenor <= 0 THEN Raise("ValueError")
    ELSE par_of(coupon_dfs(self, (tenor * frequency) \div TicksPerYear,
                           TicksPerYear \div frequency),
                get_discount_factor(self, tenor), frequency)

\* self.rates + shift / 10000.0
shifted_rates(self, shift) ==
    [i \in DOMAIN self.rates |-> RAdd(self.rates[i], RNorm(shift, 10000))]

\* what a shift_curve call leaves: the curve it returns or the error it
\* raises, and the receiver
shift_result(new, receiver) == [err |-> new.err, obj |-> new.obj, self |-> receiver]

\* a variant of shift_curve that adds the shift to the receiver's own rates
shift_curve_inplace(self, shift) ==
    shift_result(YieldCurve(self.tenors, shifted_rates(self, shift),
                            self.interpolation_method, NoCutoff, "flat", "cubic"),
                 [self EXCEPT !.rates = shifted_rates(self, shift)])

\* lines 283-294: the returned curve, and the receiver as the call leaves it
shift_curve(self, shift) ==
    shift_result(YieldCurve(self.tenors, shifted_rates(self, shift),
                            self.interpolation_method, NoCutoff, "flat", "cubic"),
                 self)

(***************************************************************************)
(* Instruments (src/core/instruments.py).  An instrument is a record; a    *)
(* future has no fixed rate, frequency or payment dates.                   *)
(***************************************************************************)
NoInst == [kind |-> "None", notional |-> R(0), start_date |-> 0, maturity |-> 0,
           fixed_rate |-> R(0), frequency |-> 0, contract_size |-> R(0),
           payment_dates |-> <<>>]

\* the loop of lines 111-114
RECURSIVE regular_dates(_, _, _)
regular_dates(current_date, period_size, maturity) ==
    IF current_date <= maturity
    THEN <<current_date>> \o regular_dates(current_date + period_size, period_size, maturity)
    ELSE <<>>

\* abs(last - maturity) > 1e-6 (years)
MissesMaturity(last, maturity) == Abs(last - maturity) * 1000000 > TicksPerYear

\* a variant of the schedule without the step that ensures the maturity
regular_payment_dates(start_date, maturity, frequency) ==
    regular_dates(start_date + TicksPerYear \div frequency,
                  TicksPerYear \div frequency, maturity)

\* lines 116-118: ensure maturity is included
with_maturity(dates, maturity) ==
    IF Len(dates) = 0 \/ MissesMaturity(Py(dates, -1), maturity)
    THEN Append(dates, maturity)
    ELSE dates

\* lines 105-118
calculate_payment_dates(start_date, maturity, frequency) ==
    with_maturity(regular_dates(start_date + TicksPerYear \div frequency,
                                TicksPerYear \div frequency, maturity),
                  maturity)

\* a variant of the constructor that refuses only a start after the maturity
IRSwap_start_after(start_date, maturity, fixed_rate, frequency, notional) ==
    IF start_date > maturity THEN [err |-> "ValueError", obj |-> NoInst]
    ELSE [err |-> "",
          obj |-> [kind |-> "IRSwap", notional |-> notional, start_date |-> start_date,
                   maturity |-> maturity, fixed_rate |-> fixed_rate,
                   frequency |-> frequency, contract_size |-> R(1),
                   payment_dates |->
                       calculate_payment_dates(start_date, maturity, frequency)]]

\* lines 74-103: IRSwap(start_date, maturity, fixed_rate, frequency, notional)
IRSwap(start_date, maturity, fixed_rate, frequency, notional) ==
    IF start_date >= maturity THEN [err |-> "ValueError", obj |-> NoInst]
    ELSE [err |-> "",
          obj |-> [kind |-> "IRSwap", notional |-> notional, start_date |-> start_date,
                   maturity |-> maturity, fixed_rate |-> fixed_rate,
                   frequency |-> frequency, contract_size |-> R(1),
                   payment_dates |->
                       calculate_payment_dates(start_date, maturity, frequency)]]

\* lines 120-123: the property effective_tenor
effective_tenor(self) == self.maturity

\* lines 125-128: the property forward_tenor_range
forward_tenor_range(self) == <<self.start_date, self.maturity>>

\* lines 130-133: the property is_forward_starting, self.start_date > 1e-6
is_forward_starting(self) == self.start_date * 1000000 > TicksPerYear

\* lines 270-287: IRFuture(start_date, maturity, notional, contract_size)
IRFuture(start_date, maturity, notional, contract_size) ==
    [err |-> "",
     obj |-> [kind |-> "IRFuture", notional |-> notional, start_date |-> start_date,
              maturity |-> maturity, fixed_rate |-> R(0), frequency |-> 0,
              contract_size |-> contract_size, payment_dates |-> <<>>]]

\* the discount factors of the payment dates
payment_dfs(self, curve) ==
    [i \in DOMAIN self.payment_dates |-> get_discount_factor(curve, self.payment_dates[i])]

\* a variant of the fixed coupon per unit of notional
fixed_coupon_unit(self) == RDiv(self.fixed_rate, R(self.frequency))

\* self.fixed_rate / self.frequency * self.notional
fixed_coupon(self) == RMul(RDiv(self.fixed_rate, R(self.frequency)), self.notional)

\* the sum of lines 161-167, unless a discount factor raised
fixed_leg_of(self, dfs) ==
    IF FirstErr(dfs) # "" THEN Raise(FirstErr(dfs))
    ELSE Ok(RSum([i \in DOMAIN dfs |-> RMul(fixed_coupon(self), dfs[i].val)]))

\* lines 157-169
price_fixed_leg(self, curve) == fixed_leg_of(self, payment_dfs(self, curve))

\* self.notional * (start_df - maturity_df), unless one raised
floating_leg_of(self, start_df, maturity_df) ==
    IF start_df.err # "" THEN start_df
    ELSE IF maturity_df.err # "" THEN maturity_df
    ELSE Ok(RMul(self.notional, RSub(start_df.val, maturity_df.val)))

\* lines 171-187
price_floating_leg(self, curve) ==
    floating_leg_of(self, get_discount_factor(curve, self.start_date),
                    get_discount_factor(curve, self.maturity))

\* a variant of the swap value from the payer's side, fixed_leg - floating_leg
swap_value_payer(fixed_leg, floating_leg) ==
    IF fixed_leg.err # "" THEN fixed_leg
    ELSE IF floating_leg.err # "" THEN floating_leg
    ELSE Ok(RSub(fixed_leg.val, floating_leg.val))

\* floating_leg - fixed_leg, unless one raised
swap_value(fixed_leg, floating_leg) ==
    IF fixed_leg.err # "" THEN fixed_leg
    ELSE IF floating_leg.err # "" THEN floating_leg
    ELSE Ok(RSub(floating_leg.val, fixed_leg.val))

\* lines 135-155
swap_price(self, curve) ==
    swap_value(price_fixed_leg(self, curve), price_floating_leg(self, curve))

\* (100.0 - forward_rate * 100.0) * contract_size * notional
future_amount(self, forward_rate) ==
    RMul(RMul(RSub(R(100), RMul(forward_rate, R(100))), self.contract_size),
         self.notional)

\* lines 302-305, unless get_forward_rate raised
future_value(self, forward_rate) ==
    IF forward_rate.err # "" THEN forward_rate
    ELSE Ok(future_amount(self, forward_rate.val))

\* lines 289-305
future_price(self, curve) ==
    future_value(self, get_forward_rate(curve, self.start_date, self.maturity))

\* instrument.price(curve)
price(self, curve) ==
    IF self.kind = "IRSwap" THEN swap_price(self, curve) ELSE future_price(self, curve)

\* lines 207-210
par_rate_over(self, floating_leg_pv, annuity) ==
    IF annuity = R(0) THEN Raise("ValueError")
    ELSE Ok(RDiv(floating_leg_pv, RMul(annuity, self.notional)))

\* lines 201-210, unless a discount factor raised
swap_par_of(self, floating_leg_pv, dfs) ==
    IF floating_leg_pv.err # "" THEN floating_leg_pv
    ELSE IF FirstErr(dfs) # "" THEN Raise(FirstErr(dfs))
    ELSE par_rate_over(self, floating_leg_pv.val,
             RSum([i \in DOMAIN dfs |-> RDiv(dfs[i].val, R(self.frequency))]))

\* lines 189-210
swap_get_par_rate(self, curve) ==
    swap_par_of(self, price_floating_leg(self, curve), payment_dfs(self, curve))

\* lines 228-230, unless a discount factor raised
sensitivity_of(self, df_start, df_end, period_length) ==
    IF df_start.err # "" THEN df_start
    ELSE IF df_end.err # "" THEN df_end
    ELSE Ok(RMul(RMul(RMul(self.notional, period_length),
                      RDiv(RAdd(df_start.val, df_end.val), R(2))),
                 RNorm(1, 10000)))

\* a variant of the sensitivity that counts every segment that overlaps the
\* swap period
get_forward_rate_sensitivity_overlap(self, curve, start_tenor, end_tenor) ==
    IF start_tenor <= self.maturity /\ self.start_date <= end_tenor
    THEN sensitivity_of(self, get_discount_factor(curve, start_tenor),
                        get_discount_factor(curve, end_tenor),
                        Years(end_tenor - start_tenor))
    ELSE Ok(R(0))

\* lines 212-231
get_forward_rate_sensitivity(self, curve, start_tenor, end_tenor) ==
    IF self.start_date <= start_tenor /\ end_tenor <= self.maturity
    THEN sensitivity_of(self, get_discount_factor(curve, start_tenor),
                        get_discount_factor(curve, end_tenor),
                        Years(end_tenor - start_tenor))
    ELSE Ok(R(0))

\* what a risk measure leaves: its value or the error it raises, and the
\* curve it was given as the call leaves it
risk_result(e, value, curve) == [err |-> e, val |-> value, curve |-> curve]

\* line 42, unless a price or the shift raised
dv01_of(base_price, shifted_curve, shifted_price, shift, curve) ==
    IF base_price.err # "" THEN risk_result(base_price.err, NaN, curve)
    ELSE IF shifted_curve.err # ""
    THEN risk_result(shifted_curve.err, NaN, shifted_curve.self)
    ELSE IF shifted_price.err # ""
    THEN risk_result(shifted_price.err, NaN, shifted_curve.self)
    ELSE risk_result("", RDiv(RSub(base_price.val, shifted_price.val),
                              RNorm(shift, 10000)),
                     shifted_curve.self)

\* lines 40-42, the base price and the shifted curve given
dv01_shifted(self, curve, shift, base_price, shifted_curve) ==
    dv01_of(base_price, shifted_curve, price(self, shifted_curve.obj), shift, curve)

\* lines 27-42: the value, and the curve as the call leaves it
get_dv01(self, curve, shift) ==
    dv01_shifted(self, curve, shift, price(self, curve), shift_curve(curve, shift))

\* lines 62-65, unless a price or a shift raised
convexity_of(base_price, up_curve, down_curve, up_price, down_price, shift, curve) ==
    IF base_price.err # "" THEN risk_result(base_price.err, NaN, curve)
    ELSE IF up_curve.err # "" THEN risk_result(up_curve.err, NaN, up_curve.self)
    ELSE IF down_curve.err # "" THEN risk_result(down_curve.err, NaN, down_curve.self)
    ELSE IF up_price.err # "" THEN risk_result(up_price.err, NaN, down_curve.self)
    ELSE IF down_price.err # "" THEN risk_result(down_price.err, NaN, down_curve.self)
    ELSE risk_result("", RDiv(RSub(RAdd(up_price.val, down_price.val),
                                   RMul(R(2), base_price.val)),
                              RMul(RNorm(shift, 10000), RNorm(shift, 10000))),
                     down_curve.self)

\* lines 59-65, the base price and the two shifted curves given
convexity_priced(self, curve, shift, base_price, up_curve, down_curve) ==
    convexity_of(base_price, up_curve, down_curve, price(self, up_curve.obj),
                 price(self, down_curve.obj), shift, curve)

\* lines 57-65: the down shift is the second call on the curve
convexity_shifted(self, curve, shift, base_price, up_curve) ==
    convexity_priced(self, curve, shift, base_price, up_curve,
                     shift_curve(up_curve.self, -shift))

\* lines 44-65: the value, and the curve as the call leaves it
get_convexity(self, curve, shift) ==
    convexity_shifted(self, curve, shift, price(self, curve), shift_curve(curve, shift))

\* the dict a get_cashflows call returns
NoFlows == [keys |-> {}, dates |-> <<>>, fixed |-> <<>>, floating |-> <<>>,
            settlement |-> <<>>]

\* a variant of the floating coupon that pays the annual rate each period
floating_coupon_annual(self, forward_rate) ==
    IF forward_rate.err # "" THEN forward_rate
    ELSE Ok(RMul(forward_rate.val, self.notional))

\* line 248, unless get_forward_rate raised
floating_coupon(self, forward_rate) ==
    IF forward_rate.err # "" THEN forward_rate
    ELSE Ok(RMul(RDiv(forward_rate.val, R(self.frequency)), self.notional))

\* the loop of lines 244-250: one forward coupon for each period
RECURSIVE floating_cashflows(_, _, _, _)
floating_cashflows(self, curve, prev_date, dates) ==
    IF dates = <<>> THEN <<>>
    ELSE (IF prev_date < Head(dates)
          THEN <<floating_coupon(self, get_forward_rate(curve, prev_date, Head(dates)))>>
          ELSE <<>>)
         \o floating_cashflows(self, curve, Head(dates), Tail(dates))

\* lines 252-256, unless a forward rate raised
swap_cashflows_of(self, floating) ==
    IF FirstErr(floating) # ""
    THEN [err |-> FirstErr(floating), val |-> NoFlows]
    ELSE [err |-> "",
          val |-> [keys |-> {"dates", "fixed", "floating"},
                   dates |-> self.payment_dates,
                   fixed |-> [i \in DOMAIN self.payment_dates |-> fixed_coupon(self)],
                   floating |-> Vals(floating),
                   settlement |-> <<>>]]

\* lines 233-256
swap_get_cashflows(self, curve) ==
    swap_cashflows_of(self, floating_cashflows(self, curve, self.start_date,
                                               self.payment_dates))

\* lines 312-317, unless get_forward_rate raised
future_cashflows_of(self, forward_rate) ==
    IF forward_rate.err # ""
    THEN [err |-> forward_rate.err, val |-> NoFlows]
    ELSE [err |-> "",
          val |-> [keys |-> {"dates", "settlement"},
                   dates |-> <<self.maturity>>,
                   fixed |-> <<>>, floating |-> <<>>,
                   settlement |-> <<future_amount(self, forward_rate.val)>>]]

\* lines 307-317
future_get_cashflows(self, curve) ==
    future_cashflows_of(self, get_forward_rate(curve, self.start_date, self.maturity))

\* instrument.get_cashflows(curve)
get_cashflows(self, curve) ==
    IF self.kind = "IRSwap" THEN swap_get_cashflows(self, curve)
    ELSE future_get_cashflows(self, curve)

(***************************************************************************)
(* Bootstrapping (src/core/bootstrapping.py).  What scipy's minimize       *)
(* returns is an input of the model: any rate vector inside the bounds,    *)
(* with or without success.  A call leaves the curve it returns or the     *)
(* error it raises, the steps it went through, and whether it printed the  *)
(* non-convergence warning.                                                *)
(***************************************************************************)
\* line 77: sorted(list(set(tenors)))
RECURSIVE sorted(_)
sorted(S) ==
    IF S = {} THEN <<>>
    ELSE <<CHOOSE x \in S : \A y \in S : x <= y>>
         \o sorted(S \ {CHOOSE x \in S : \A y \in S : x <= y})

\* a variant of the tenor extraction that takes the midpoint of a future's
\* period (in half ticks rounded down)
extract_tenors_midpoint(instruments) ==
    sorted({IF instruments[i].kind = "IRFuture"
            THEN (instruments[i].start_date + instruments[i].maturity) \div 2
            ELSE instruments[i].maturity : i \in DOMAIN instruments})

\* lines 64-78: every instrument has a maturity, so the elif branch of line
\* 71 is never taken
extract_tenors(instruments) ==
    sorted({instruments[i].maturity : i \in DOMAIN instruments})

\* lines 89-103: the guess for one tenor
initial_rate(tenor) ==
    IF tenor <= TicksPerYear THEN RNorm(2, 100)
    ELSE IF tenor >= 10 * TicksPerYear THEN RNorm(6, 100)
    ELSE RAdd(RNorm(2, 100),
              RDiv(RMul(RNorm(4, 100), RSub(Years(tenor), R(1))), R(9)))

\* lines 80-105
get_initial_rates(tenors) ==
    IF Len(tenors) = 1 THEN <<RNorm(5, 100)>>
    ELSE [i \in DOMAIN tenors |-> initial_rate(tenors[i])]

\* line 133: (model_price - market_price) / market_price, unless price raised
relative_error(model_price, market_price) ==
    IF model_price.err # "" THEN model_price
    ELSE Ok(RDiv(RSub(model_price.val, market_price), market_price))

\* lines 130-134: zip stops at the shorter list
pricing_errors(temp_curve, instruments, market_prices) ==
    [i \in 1..(IF Len(instruments) <= Len(market_prices)
               THEN Len(instruments) ELSE Len(market_prices)) |->
        relative_error(price(instruments[i], temp_curve), market_prices[i])]

\* line 137: np.sum(np.array(errors) ** 2), unless a price raised
squared_errors(errors) ==
    IF FirstErr(errors) # "" THEN Raise(FirstErr(errors))
    ELSE Ok(RSum([i \in DOMAIN errors |-> RMul(errors[i].val, errors[i].val)]))

\* lines 127-137, the temporary curve given
objective_on(temp_curve, instruments, market_prices) ==
    IF temp_curve.err # "" THEN Raise(temp_curve.err)
    ELSE squared_errors(pricing_errors(temp_curve.obj, instruments, market_prices))

\* lines 124-137
objective_function(method, instruments, market_prices, tenors, rates) ==
    objective_on(YieldCurve(tenors, rates, method, NoCutoff, "flat", "cubic"),
                 instruments, market_prices)

\* lines 139-151: minimize evaluates the objective at the initial rates, and
\* an error there ends the call; else result.x is returned, after the
\* warning when result.success is false
optimized_of(first_value, result) ==
    IF first_value.err # ""
    THEN [err |-> first_value.err, val |-> <<>>, warned |-> FALSE]
    ELSE [err |-> "", val |-> result.x, warned |-> ~result.success]

\* lines 107-151
optimize_rates(method, instruments, market_prices, tenors, initial_rates, result) ==
    optimized_of(objective_function(method, instruments, market_prices, tenors,
                                    initial_rates),
                 result)

\* what a bootstrap call leaves
boot_result(e, c, steps, warned) ==
    [err |-> e, obj |-> c, steps |-> steps, warned |-> warned]

\* lines 59-62, the optimized rates given
bootstrap_built(c, warned) ==
    boot_result(c.err, c.obj,
                <<"_extract_tenors", "_get_initial_rates", "_optimize_rates",
                  "YieldCurve">>,
                warned)

\* lines 54-62, the tenors given
bootstrap_optimized(method, tenors, optimized) ==
    IF optimized.err # ""
    THEN boot_result(optimized.err, NoCurve,
                     <<"_extract_tenors", "_get_initial_rates", "_optimize_rates">>,
                     FALSE)
    ELSE bootstrap_built(YieldCurve(tenors, optimized.val, method,
                                    NoCutoff, "flat", "cubic"),
                         optimized.warned)

\* lines 44-62: target_tenors is assigned in lines 48-49 and never read
bootstrap_on(method, instruments, market_prices, tenors, result) ==
    bootstrap_optimized(method, tenors,
        optimize_rates(method, instruments, market_prices, tenors,
                       get_initial_rates(tenors), result))

\* a variant of bootstrap_curve without the length check
bootstrap_curve_unchecked(method, instruments, market_prices, target_tenors, result) ==
    bootstrap_on(method, instruments, market_prices,
                 extract_tenors(instruments), result)

\* lines 26-62: CurveBootstrapper(method).bootstrap_curve(instruments,
\* market_prices, target_tenors)
bootstrap_curve(method, instruments, market_prices, target_tenors, result) ==
    IF Len(instruments) # Len(market_prices)
    THEN boot_result("ValueError", NoCurve, <<>>, FALSE)
    ELSE bootstrap_on(method, instruments, market_prices,
                      extract_tenors(instruments), result)

\* curve.py lines 304-320: YieldCurve.from_instruments(instruments,
\* market_prices, tenors), through a CurveBootstrapper() of the default method
from_instruments(instruments, market_prices, tenors, result) ==
    bootstrap_curve("cubic", instruments, market_prices, tenors, result)

\* lines 260-263: objective(rate) of the bisection, known_pv being
\* coupon_amount * coupon_pv + principal_pv
single_objective(rate, known_pv, tenor) ==
    RSub(RAdd(known_pv, NpExp(RMul(RNeg(rate), Years(tenor)))), R(1))

\* lines 266-274: the loop, steps iterations to go
RECURSIVE bisection(_, _, _, _, _)
RECURSIVE bisection_step(_, _, _, _, _, _)
bisection_step(steps, rate_low, rate_high, rate_mid, known_pv, tenor) ==
    IF steps = 1 THEN rate_mid
    ELSE IF RLt(R(0), single_objective(rate_mid, known_pv, tenor))
    THEN bisection(steps - 1, rate_low, rate_mid, known_pv, tenor)
    ELSE bisection(steps - 1, rate_mid, rate_high, known_pv, tenor)
bisection(steps, rate_low, rate_high, known_pv, tenor) ==
    bisection_step(steps, rate_low, rate_high,
                   RDiv(RAdd(rate_low, rate_high), R(2)), known_pv, tenor)

\* lines 256-278
solve_rate(known_pv, remaining_coupons, tenor) ==
    IF RLt(R(0), remaining_coupons)
    THEN Ok(bisection(BisectionSteps, R(0), RNorm(20, 100), known_pv, tenor))
    ELSE Ok(RDiv(RNeg(NpLog(RSub(R(1), known_pv))), Years(tenor)))

\* lines 236-278, the discount factors on the known curve given
single_rate_of(coupons, principal_pv, coupon_amount, remaining_coupons, tenor) ==
    IF FirstErr(coupons) # "" THEN Raise(FirstErr(coupons))
    ELSE IF principal_pv.err # "" THEN principal_pv
    ELSE solve_rate(RAdd(RMul(coupon_amount, RSum(Vals(coupons))), principal_pv.val),
                    remaining_coupons, tenor)

\* lines 237-242: the coupon dates before the last, up to the last known tenor
known_coupon_dfs(temp_curve, periods, period_size, last_known) ==
    [i \in 1..(periods - 1) |->
        IF i * period_size <= last_known
        THEN get_discount_factor(temp_curve, i * period_size)
        ELSE Ok(R(0))]

\* lines 245-247
known_principal_pv(temp_curve, tenor, last_known) ==
    IF tenor <= last_known THEN get_discount_factor(temp_curve, tenor) ELSE Ok(R(0))

\* lines 253-254
remaining_coupons_of(swap_rate, frequency, periods, known_tenors, tenor) ==
    RMul(RDiv(swap_rate, R(frequency)),
         R(periods - Cardinality({i \in DOMAIN known_tenors : known_tenors[i] < tenor})))

\* lines 229-278, the temporary curve given
single_rate_on(temp_curve, tenor, swap_rate, known_tenors, frequency, periods) ==
    IF temp_curve.err # "" THEN Raise(temp_curve.err)
    ELSE single_rate_of(
             known_coupon_dfs(temp_curve.obj, periods, TicksPerYear \div frequency,
                              Py(known_tenors, -1)),
             known_principal_pv(temp_curve.obj, tenor, Py(known_tenors, -1)),
             RDiv(swap_rate, R(frequency)),
             remaining_coupons_of(swap_rate, frequency, periods, known_tenors, tenor),
             tenor)

\* lines 210-278; int(tenor * frequency) truncates
bootstrap_single_rate(method, tenor, swap_rate, known_tenors, known_rates, frequency) ==
    single_rate_on(YieldCurve(known_tenors, known_rates, method,
                              NoCutoff, "flat", "cubic"),
                   tenor, swap_rate, known_tenors, frequency,
                   (tenor * frequency) \div TicksPerYear)

\* lines 195-208: the loop from the i-th quote on; the first zero rate is
\* the first swap rate
RECURSIVE zero_rates_from(_, _, _, _, _, _)
RECURSIVE zero_rates_with(_, _, _, _, _, _, _)
zero_rates_with(method, tenors, swap_rates, frequency, i, zero_rates, zero_rate) ==
    IF zero_rate.err # "" THEN [err |-> zero_rate.err, val |-> <<>>]
    ELSE zero_rates_from(method, tenors, swap_rates, frequency, i + 1,
                         Append(zero_rates, zero_rate.val))
zero_rates_from(method, tenors, swap_rates, frequency, i, zero_rates) ==
    IF i > Len(tenors) THEN [err |-> "", val |-> zero_rates]
    ELSE zero_rates_with(method, tenors, swap_rates, frequency, i, zero_rates,
             IF i = 1 THEN Ok(swap_rates[1])
             ELSE bootstrap_single_rate(method, tenors[i], swap_rates[i],
                                        Upto(tenors, i - 1), zero_rates, frequency))

\* lines 180-208
bootstrap_zero_rates(method, tenors, swap_rates, frequency) ==
    zero_rates_from(method, tenors, swap_rates, frequency, 1, <<>>)

\* (tenor, rate) of quote i sorts before that of quote j
quote_before(swap_tenors, swap_rates, i, j) ==
    \/ swap_tenors[i] < swap_tenors[j]
    \/ swap_tenors[i] = swap_tenors[j] /\ RLt(swap_rates[i], swap_rates[j])

\* line 172: sorted(zip(swap_tenors, swap_rates)), as the order of the
\* quotes' indices
RECURSIVE sorted_quotes(_, _, _)
sorted_quotes(swap_tenors, swap_rates, left) ==
    IF left = {} THEN <<>>
    ELSE LET first == CHOOSE i \in left : \A j \in left :
                 /\ ~quote_before(swap_tenors, swap_rates, j, i)
                 /\ (quote_before(swap_tenors, swap_rates, i, j) \/ i <= j)
         IN  <<first>> \o sorted_quotes(swap_tenors, swap_rates, left \ {first})

\* line 178, the curve constructed
from_swaps_curve(c) ==
    boot_result(c.err, c.obj, <<"sorted", "_bootstrap_zero_rates", "YieldCurve">>,
                FALSE)

\* lines 175-178, the zero rates given
from_swaps_built(method, tenors, zero_rates) ==
    IF zero_rates.err # ""
    THEN boot_result(zero_rates.err, NoCurve, <<"sorted", "_bootstrap_zero_rates">>,
                     FALSE)
    ELSE from_swaps_curve(YieldCurve(tenors, zero_rates.val, method,
                                     NoCutoff, "flat", "cubic"))

\* lines 171-178, the order given
from_swaps_ordered(method, swap_rates, swap_tenors, frequency, order) ==
    from_swaps_built(method, [k \in DOMAIN order |-> swap_tenors[order[k]]],
        bootstrap_zero_rates(method,
                             [k \in DOMAIN order |-> swap_tenors[order[k]]],
                             [k \in DOMAIN order |-> swap_rates[order[k]]],
                             frequency))

\* lines 153-178: CurveBootstrapper(method).bootstrap_from_swaps(swap_rates,
\* swap_tenors, frequency); unpacking zip(*[]) of no quotes is a ValueError
bootstrap_from_swaps(method, swap_rates, swap_tenors, frequency) ==
    IF Len(swap_rates) # Len(swap_tenors)
    THEN boot_result("ValueError", NoCurve, <<>>, FALSE)
    ELSE IF Len(swap_tenors) = 0
    THEN boot_result("ValueError", NoCurve, <<"sorted">>, FALSE)
    ELSE from_swaps_ordered(method, swap_rates, swap_tenors, frequency,
                            sorted_quotes(swap_tenors, swap_rates, DOMAIN swap_tenors))

(***************************************************************************)
(* Coverage and overlap diagnostics of an instrument list.                 *)
(* analyze_forward_swap_coverage is called by the tests and demos but its  *)
(* code is not in the source tree: it is modelled from the specification's *)
(* section on calibration (coverage summary and coverage segments).        *)
(***************************************************************************)
\* one coverage segment: the instrument's start and maturity, and whether it
\* starts forward (start_date > 0) or spot
coverage_segment(instrument) ==
    [start_tenor |-> instrument.start_date, end_tenor |-> instrument.maturity,
     type |-> IF instrument.start_date > 0 THEN "forward" ELSE "spot"]

\* the segments left to place, sorted by start_tenor, the earlier
\* instrument first among equal starts
RECURSIVE segments_by_start(_, _)
segments_by_start(instruments, left) ==
    IF left = {} THEN <<>>
    ELSE LET first == CHOOSE i \in left : \A j \in left :
                 \/ instruments[i].start_date < instruments[j].start_date
                 \/ instruments[i].start_date = instruments[j].start_date /\ i <= j
         IN  <<coverage_segment(instruments[first])>>
             \o segments_by_start(instruments, left \ {first})

\* a variant of the coverage analysis that leaves the segments in the order
\* of the instruments
analyze_forward_swap_coverage_unsorted(instruments) ==
    [total_instruments |-> Len(instruments),
     forward_starting_count |->
         Cardinality({i \in DOMAIN instruments : instruments[i].start_date > 0}),
     spot_starting_count |->
         Cardinality({i \in DOMAIN instruments : instruments[i].start_date = 0}),
     min_tenor |-> IF instruments = <<>> THEN 0
                   ELSE Py(sorted({instruments[i].start_date : i \in DOMAIN instruments}), 0),
     max_tenor |-> IF instruments = <<>> THEN 0
                   ELSE Py(sorted({instruments[i].maturity : i \in DOMAIN instruments}), -1),
     coverage_segments |->
         [i \in DOMAIN instruments |-> coverage_segment(instruments[i])]]

\* CurveBootstrapper.analyze_forward_swap_coverage(instruments): the counts,
\* the range [min(start_date), max(maturity)] (0 and 0 for no instruments,
\* which the specification leaves open) and the segments
analyze_forward_swap_coverage(instruments) ==
    [total_instruments |-> Len(instruments),
     forward_starting_count |->
         Cardinality({i \in DOMAIN instruments : instruments[i].start_date > 0}),
     spot_starting_count |->
         Cardinality({i \in DOMAIN instruments : instruments[i].start_date = 0}),
     min_tenor |-> IF instruments = <<>> THEN 0
                   ELSE Py(sorted({instruments[i].start_date : i \in DOMAIN instruments}), 0),
     max_tenor |-> IF instruments = <<>> THEN 0
                   ELSE Py(sorted({instruments[i].maturity : i \in DOMAIN instruments}), -1),
     coverage_segments |-> segments_by_start(instruments, DOMAIN instruments)]

\* instruments.py lines 258-262 and 333-334: str(instrument); a spot swap
\* prints its maturity and rate only
instrument_str(self) ==
    IF self.kind = "IRFuture" THEN <<"IRFuture", self.start_date, self.maturity>>
    ELSE IF is_forward_starting(self)
    THEN <<"IRSwap", "forward", self.start_date, self.maturity, self.fixed_rate>>
    ELSE <<"IRSwap", "spot", self.maturity, self.fixed_rate>>

\* demo_overlap_analysis.py lines 72-78: the sorted start dates and
\* maturities of the instruments that have is_forward_starting, the swaps
breakpoints_of(instruments) ==
    sorted({instruments[i].start_date :
                i \in {k \in DOMAIN instruments : instruments[k].kind = "IRSwap"}}
           \cup {instruments[i].maturity :
                i \in {k \in DOMAIN instruments : instruments[k].kind = "IRSwap"}})

\* a variant of the covering test that takes every instrument, futures too
covering_instruments_all(instruments, start, end) ==
    [k \in DOMAIN SelectSeq(instruments,
            LAMBDA inst : /\ 2 * inst.start_date <= start + end
                          /\ start + end <= 2 * inst.maturity) |->
        instrument_str(SelectSeq(instruments,
            LAMBDA inst : /\ 2 * inst.start_date <= start + end
                          /\ start + end <= 2 * inst.maturity)[k])]

\* lines 84-91: the swaps whose period contains the mid point (start + end) / 2
covering_instruments(instruments, start, end) ==
    [k \in DOMAIN SelectSeq(instruments,
            LAMBDA inst : /\ inst.kind = "IRSwap"
                          /\ 2 * inst.start_date <= start + end
                          /\ start + end <= 2 * inst.maturity) |->
        instrument_str(SelectSeq(instruments,
            LAMBDA inst : /\ inst.kind = "IRSwap"
                          /\ 2 * inst.start_date <= start + end
                          /\ start + end <= 2 * inst.maturity)[k])]

\* lines 80-98: the loop from breakpoint i on
RECURSIVE overlaps_from(_, _, _)
overlaps_from(instruments, breakpoints, i) ==
    IF i > Len(breakpoints) - 1 THEN <<>>
    ELSE LET covering == covering_instruments(instruments, breakpoints[i],
                                              breakpoints[i + 1])
         IN  (IF Len(covering) > 1
              THEN <<[start |-> breakpoints[i], end |-> breakpoints[i + 1],
                      instruments |-> covering]>>
              ELSE <<>>)
             \o overlaps_from(instruments, breakpoints, i + 1)

\* lines 69-100
find_overlapping_regions(instruments) ==
    overlaps_from(instruments, breakpoints_of(instruments), 1)

(***************************************************************************)
(* State: the objects the caller holds, and the last call with its outcome. *)
(***************************************************************************)
VARIABLES
    args,     \* the arguments of the YieldCurve(...) call
    curve,    \* the curve object, NoCurve when there is none
    inst,     \* the instrument object, NoInst when there is none
    op,       \* the last call: "none", "YieldCurve", "get_rate", ...
    arg,      \* its arguments
    ret,      \* its outcome, [err, val]: the error raised or the value returned
    calls     \* the number of calls made so far, constructors included

vars == <<args, curve, inst, op, arg, ret, calls>>

(***************************************************************************)
(* Inputs.                                                                 *)
(***************************************************************************)
RECURSIVE SortedSeq(_)
SortedSeq(S) ==
    IF S = {} THEN <<>>
    ELSE LET m == CHOOSE x \in S : \A y \in S : x <= y
         IN  <<m>> \o SortedSeq(S \ {m})

\* tenor lists: every ascending list over the node grid, and two that are not
\* strictly increasing
TenorInputs == {SortedSeq(S) : S \in SUBSET (1..MaxTenor)} \cup {<<2, 1>>, <<1, 1>>}
Rate(k) == RNorm(k, RateDen)
RateInputs(n) == {[i \in 1..n |-> Rate(k[i])] : k \in [1..n -> 0..MaxRate]}
\* rate lists for a tenor list: same length, or one rate too many
RateInputsFor(tenors) ==
    RateInputs(Len(tenors)) \cup {[i \in 1..(Len(tenors) + 1) |-> Rate(0)]}

ModeNames == {"linear", "cubic", "log_linear", "flat", "hybrid", "spline"}
SubModeNames == {"linear", "cubic", "log_linear", "flat", "nearest"}
ValidModes == {"linear", "cubic", "log_linear", "flat", "hybrid"}
ValidSubModes == {"linear", "cubic", "log_linear", "flat"}
QueryTenors == 0..(MaxTenor + 1)
CutoffInputs == {NoCutoff} \cup QueryTenors

\* the keyword arguments of a call: the defaults for the modes that ignore
\* them, every combination for hybrid
KeywordInputs(method) ==
    IF method = "hybrid"
    THEN {<<NoCutoff, "flat", "cubic">>}
         \cup (QueryTenors \X SubModeNames \X SubModeNames)
    ELSE {<<NoCutoff, "flat", "cubic">>}

(***************************************************************************)
(* Actions.                                                                *)
(***************************************************************************)
\* one more call, in a session of at most MaxCalls
Called == calls < MaxCalls /\ calls' = calls + 1

Init ==
    /\ args = NoCurve
    /\ curve = NoCurve
    /\ inst = NoInst
    /\ op = "none"
    /\ arg = 0
    /\ ret = Ok(R(0))
    /\ calls = 0

\* curve = YieldCurve(tenors, rates, method, cutoff, pre, post)
Construct ==
    /\ Called
    /\ op = "none"
    /\ \E tenors \in TenorInputs, method \in ModeNames :
         \E rates \in RateInputsFor(tenors), kw \in KeywordInputs(method) :
           LET r == YieldCurve(tenors, rates, method, kw[1], kw[2], kw[3])
           IN  /\ args' = NewObject(tenors, rates, method, kw[1], kw[2], kw[3])
               /\ curve' = r.obj
               /\ op' = "YieldCurve"
               /\ arg' = 0
               /\ ret' = [err |-> r.err, val |-> R(0)]
               /\ UNCHANGED inst

\* curve.get_rate(t)
GetRate ==
    /\ Called
    /\ curve # NoCurve
    /\ \E t \in QueryTenors :
         /\ op' = "get_rate"
         /\ arg' = t
         /\ ret' = get_rate(curve, t)
         /\ UNCHANGED <<args, curve, inst>>

Next == Construct \/ GetRate

Spec == Init /\ [][Next]_vars

(***************************************************************************)
(* Pricing and risk: a caller holding one valid curve builds one           *)
(* instrument and calls the methods of both in any order.                  *)
(***************************************************************************)
\* node lists in arithmetic progression with step 1 or 2, up to MaxTenor
RiskTenorInputs ==
    {[i \in 1..n |-> a + d * (i - 1)] :
        <<a, d, n>> \in {x \in (1..MaxTenor) \X {1, 2} \X (1..MaxTenor) :
                            x[1] + x[2] * (x[3] - 1) = MaxTenor}}
\* rate lists: from every level, one rate step up from node to node (and
\* back to zero after MaxRate)
RiskRateInputs(n) ==
    {[i \in 1..n |-> Rate((k + i - 1) % (MaxRate + 1))] : k \in 0..MaxRate}
\* hybrid curves: flat up to the cutoff at tick 2, cubic after it
RiskKeywordInputs(method) ==
    IF method = "hybrid"
    THEN {<<2, "flat", "cubic">>}
    ELSE {<<NoCutoff, "flat", "cubic">>}
\* one shift step is 1000 bp
ShiftInputs == {1000 * k : k \in 1..MaxShift} \cup {-1000 * k : k \in 1..MaxShift}
Frequencies == {1, 2, 4}
Notionals == {R(1), R(2)}
RiskDates == {0, 2, 3}
\* segment ends: the dates above and one beyond every maturity
SegmentDates == RiskDates \cup {MaxTenor + 1}

InitRisk ==
    /\ \E tenors \in RiskTenorInputs, method \in ValidModes :
         \E rates \in RiskRateInputs(Len(tenors)), kw \in RiskKeywordInputs(method) :
           LET r == YieldCurve(tenors, rates, method, kw[1], kw[2], kw[3])
           IN  /\ r.err = ""
               /\ args = NewObject(tenors, rates, method, kw[1], kw[2], kw[3])
               /\ curve = r.obj
    /\ inst = NoInst
    /\ op = "none"
    /\ arg = 0
    /\ ret = Ok(R(0))
    /\ calls = 1

\* inst = IRSwap(start_date, maturity, fixed_rate, frequency, notional)
NewSwap(starts, maturities, frequencies) ==
    /\ Called
    /\ inst = NoInst
    /\ \E start_date \in starts, maturity \in maturities,
          frequency \in frequencies, notional \in Notionals :
         LET r == IRSwap(start_date, maturity, Rate(MaxRate), frequency, notional)
         IN  /\ inst' = r.obj
             /\ op' = "IRSwap"
             /\ arg' = <<start_date, maturity, frequency, notional>>
             /\ ret' = [err |-> r.err, val |-> R(0)]
             /\ UNCHANGED <<args, curve>>

\* inst = IRFuture(start_date, maturity, notional, contract_size)
NewFutureOf(starts, maturities) ==
    /\ Called
    /\ inst = NoInst
    /\ \E start_date \in starts, maturity \in maturities :
         LET r == IRFuture(start_date, maturity, R(2), R(1))
         IN  /\ inst' = r.obj
             /\ op' = "IRFuture"
             /\ arg' = <<start_date, maturity>>
             /\ ret' = [err |-> r.err, val |-> R(0)]
             /\ UNCHANGED <<args, curve>>

\* futures that start before they mature
NewFuture == NewFutureOf({0, 1}, {MaxTenor})

\* curve.get_discount_factor(t)
GetDiscountFactor ==
    /\ Called
    /\ curve # NoCurve
    /\ \E t \in QueryTenors :
         /\ op' = "get_discount_factor"
         /\ arg' = t
         /\ ret' = get_discount_factor(curve, t)
         /\ UNCHANGED <<args, curve, inst>>

\* curve.get_forward_rate(a, b)
GetForwardRate ==
    /\ Called
    /\ curve # NoCurve
    /\ \E a \in RiskDates, b \in RiskDates :
         /\ op' = "get_forward_rate"
         /\ arg' = <<a, b>>
         /\ ret' = get_forward_rate(curve, a, b)
         /\ UNCHANGED <<args, curve, inst>>

\* curve.get_par_rate(t, frequency)
CurveGetParRate ==
    /\ Called
    /\ curve # NoCurve
    /\ \E t \in RiskDates, frequency \in {1, 2} :
         /\ op' = "curve.get_par_rate"
         /\ arg' = <<t, frequency>>
         /\ ret' = curve_get_par_rate(curve, t, frequency)
         /\ UNCHANGED <<args, curve, inst>>

\* curve.shift_curve(s)
ShiftCurve ==
    /\ Called
    /\ curve # NoCurve
    /\ \E s \in ShiftInputs :
         LET r == shift_curve(curve, s)
         IN  /\ op' = "shift_curve"
             /\ arg' = s
             /\ ret' = [err |-> r.err, val |-> r.obj]
             /\ curve' = r.self
             /\ UNCHANGED <<args, inst>>

\* inst.price(curve)
Price ==
    /\ Called
    /\ curve # NoCurve /\ inst # NoInst
    /\ op' = "price"
    /\ arg' = 0
    /\ ret' = price(inst, curve)
    /\ UNCHANGED <<args, curve, inst>>

\* inst.get_dv01(curve, s)
GetDv01 ==
    /\ Called
    /\ curve # NoCurve /\ inst # NoInst
    /\ \E s \in ShiftInputs :
         LET r == get_dv01(inst, curve, s)
         IN  /\ op' = "get_dv01"
             /\ arg' = s
             /\ ret' = [err |-> r.err, val |-> r.val]
             /\ curve' = r.curve
             /\ UNCHANGED <<args, inst>>

\* inst.get_convexity(curve, s)
GetConvexity ==
    /\ Called
    /\ curve # NoCurve /\ inst # NoInst
    /\ \E s \in ShiftInputs :
         LET r == get_convexity(inst, curve, s)
         IN  /\ op' = "get_convexity"
             /\ arg' = s
             /\ ret' = [err |-> r.err, val |-> r.val]
             /\ curve' = r.curve
             /\ UNCHANGED <<args, inst>>

\* inst.get_cashflows(curve)
GetCashflows ==
    /\ Called
    /\ curve # NoCurve /\ inst # NoInst
    /\ op' = "get_cashflows"
    /\ arg' = 0
    /\ ret' = get_cashflows(inst, curve)
    /\ UNCHANGED <<args, curve, inst>>

\* swap.get_par_rate(curve)
SwapGetParRate ==
    /\ Called
    /\ curve # NoCurve /\ inst.kind = "IRSwap"
    /\ op' = "swap.get_par_rate"
    /\ arg' = 0
    /\ ret' = swap_get_par_rate(inst, curve)
    /\ UNCHANGED <<args, curve, inst>>

\* swap.get_forward_rate_sensitivity(curve, a, b)
GetForwardRateSensitivity ==
    /\ Called
    /\ curve # NoCurve /\ inst.kind = "IRSwap"
    /\ \E a \in SegmentDates, b \in SegmentDates :
         /\ op' = "get_forward_rate_sensitivity"
         /\ arg' = <<a, b>>
         /\ ret' = get_forward_rate_sensitivity(inst, curve, a, b)
         /\ UNCHANGED <<args, curve, inst>>

NextRisk ==
    \/ NewSwap({0, 1}, {MaxTenor}, {1, 2})
    \/ NewFuture
    \/ GetRate
    \/ GetDiscountFactor
    \/ GetForwardRate
    \/ CurveGetParRate
    \/ ShiftCurve
    \/ Price
    \/ GetDv01
    \/ GetConvexity
    \/ GetCashflows
    \/ SwapGetParRate
    \/ GetForwardRateSensitivity

SpecRisk == InitRisk /\ [][NextRisk]_vars

(***************************************************************************)
(* Swap schedules: every swap over the schedule grid.                      *)
(***************************************************************************)
\* swap.effective_tenor
EffectiveTenor ==
    /\ Called
    /\ inst.kind = "IRSwap"
    /\ op' = "effective_tenor"
    /\ arg' = 0
    /\ ret' = Ok(effective_tenor(inst))
    /\ UNCHANGED <<args, curve, inst>>

\* swap.forward_tenor_range
ForwardTenorRange ==
    /\ Called
    /\ inst.kind = "IRSwap"
    /\ op' = "forward_tenor_range"
    /\ arg' = 0
    /\ ret' = Ok(forward_tenor_range(inst))
    /\ UNCHANGED <<args, curve, inst>>

\* swap.is_forward_starting
IsForwardStarting ==
    /\ Called
    /\ inst.kind = "IRSwap"
    /\ op' = "is_forward_starting"
    /\ arg' = 0
    /\ ret' = Ok(is_forward_starting(inst))
    /\ UNCHANGED <<args, curve, inst>>

NextSwap ==
    \/ NewSwap(0..MaxStart, 0..MaxMaturity, Frequencies)
    \/ EffectiveTenor
    \/ ForwardTenorRange
    \/ IsForwardStarting

SpecSwap == Init /\ [][NextSwap]_vars

(***************************************************************************)
(* SpecForward: forward rates, and instruments priced on them; futures     *)
(* with every order of start and maturity.                                 *)
(***************************************************************************)
NextForward ==
    \/ NewSwap({0, 1}, {MaxTenor}, {1, 2})
    \/ NewFutureOf(0..MaxTenor, {2, MaxTenor})
    \/ GetForwardRate
    \/ Price
    \/ GetCashflows

SpecForward == InitRisk /\ [][NextForward]_vars

(***************************************************************************)
(* Bootstrapping: a caller holding a CurveBootstrapper makes one bootstrap *)
(* call.  The bootstrapper keeps nothing but its interpolation method, so  *)
(* calls do not influence each other.                                      *)
(***************************************************************************)
\* spot swaps of half a year and of one year, a forward swap, and futures
\* of which two share a maturity; the fixed rate and the futures' notional
\* keep the squared pricing errors within 32 bits
BootInstruments ==
    {IRSwap(0, 2, R(0), 2, R(1)).obj,
     IRSwap(0, TicksPerYear, R(0), 1, R(1)).obj,
     IRSwap(2, TicksPerYear, R(0), 2, R(1)).obj,
     IRFuture(0, 2, RNorm(1, 100), R(1)).obj,
     IRFuture(0, TicksPerYear, RNorm(1, 100), R(1)).obj,
     IRFuture(2, TicksPerYear, RNorm(1, 100), R(1)).obj}
InstrumentLists == UNION {[1..n -> BootInstruments] : n \in 0..MaxInstruments}
MarketPriceLists == UNION {[1..n -> {R(0), R(1)}] : n \in 0..MaxInstruments}
\* target_tenors: None, or a grid that is not the maturities
NoTargets == <<-1>>
TargetInputs == {NoTargets, <<2, 3>>}
BootMethods == {"cubic", "linear", "log_linear"}
\* what minimize may return under bounds (0.0, 0.20): a rate vector of the
\* length of its initial guess, converged or not
MinimizeResults(n) ==
    {[x |-> [i \in 1..n |-> Rate(k[i])], success |-> s] :
        k \in [1..n -> {0, 1, 2}], s \in BOOLEAN}
QuoteTenorLists == UNION {[1..n -> {2, TicksPerYear, 2 * TicksPerYear}] : n \in 0..MaxQuotes}
QuoteRateLists == UNION {[1..n -> {Rate(0), Rate(1)}] : n \in 0..MaxQuotes}

\* curve = CurveBootstrapper(method).bootstrap_curve(instruments,
\*             market_prices, target_tenors)
BootstrapCurve ==
    /\ Called
    /\ op = "none"
    /\ \E method \in BootMethods, instruments \in InstrumentLists,
          market_prices \in MarketPriceLists, target_tenors \in TargetInputs :
         \E result \in MinimizeResults(Len(extract_tenors(instruments))) :
           LET r == bootstrap_curve(method, instruments, market_prices,
                                    target_tenors, result)
           IN  /\ curve' = r.obj
               /\ op' = "bootstrap_curve"
               /\ arg' = [method |-> method, instruments |-> instruments,
                          market_prices |-> market_prices,
                          target_tenors |-> target_tenors, result |-> result]
               /\ ret' = [err |-> r.err, val |-> R(0), steps |-> r.steps,
                          warned |-> r.warned]
               /\ UNCHANGED <<args, inst>>

\* curve = CurveBootstrapper(method).bootstrap_from_swaps(swap_rates,
\*             swap_tenors, frequency)
BootstrapFromSwaps ==
    /\ Called
    /\ op = "none"
    /\ \E method \in BootMethods, swap_rates \in QuoteRateLists,
          swap_tenors \in QuoteTenorLists, frequency \in {1, 2} :
         LET r == bootstrap_from_swaps(method, swap_rates, swap_tenors, frequency)
         IN  /\ curve' = r.obj
             /\ op' = "bootstrap_from_swaps"
             /\ arg' = [method |-> method, swap_rates |-> swap_rates,
                        swap_tenors |-> swap_tenors, frequency |-> frequency]
             /\ ret' = [err |-> r.err, val |-> R(0), steps |-> r.steps,
                        warned |-> r.warned]
             /\ UNCHANGED <<args, inst>>

\* curve = YieldCurve.from_instruments(instruments, market_prices, tenors)
FromInstruments ==
    /\ Called
    /\ op = "none"
    /\ \E instruments \in InstrumentLists, market_prices \in MarketPriceLists,
          target_tenors \in TargetInputs :
         \E result \in MinimizeResults(Len(extract_tenors(instruments))) :
           LET r == from_instruments(instruments, market_prices, target_tenors, result)
           IN  /\ curve' = r.obj
               /\ op' = "from_instruments"
               /\ arg' = [method |-> "cubic", instruments |-> instruments,
                          market_prices |-> market_prices,
                          target_tenors |-> target_tenors, result |-> result]
               /\ ret' = [err |-> r.err, val |-> R(0), steps |-> r.steps,
                          warned |-> r.warned]
               /\ UNCHANGED <<args, inst>>

NextBoot == BootstrapCurve \/ BootstrapFromSwaps \/ FromInstruments

SpecBoot == Init /\ [][NextBoot]_vars

(***************************************************************************)
(* Diagnostics: a caller runs the coverage analysis or the overlap         *)
(* detection on an instrument list.  Both are pure functions of the list.  *)
(***************************************************************************)
\* swaps that nest, overlap, touch and coincide, and two futures
CoverageInstruments ==
    {IRSwap(s[1], s[2], Rate(MaxRate), 1, R(1)).obj :
        s \in {<<0, 2>>, <<1, 4>>, <<2, 5>>, <<2, 4>>, <<0, 4>>, <<4, 5>>}}
    \cup {IRFuture(0, 2, R(1), R(1)).obj, IRFuture(1, 4, R(1), R(1)).obj}
CoverageLists == UNION {[1..n -> CoverageInstruments] : n \in 0..MaxCoverage}

\* coverage = bootstrapper.analyze_forward_swap_coverage(instruments)
AnalyzeForwardSwapCoverage ==
    /\ Called
    /\ op = "none"
    /\ \E instruments \in CoverageLists :
         /\ op' = "analyze_forward_swap_coverage"
         /\ arg' = instruments
         /\ ret' = [err |-> "", val |-> analyze_forward_swap_coverage(instruments)]
         /\ UNCHANGED <<args, curve, inst>>

\* overlaps = find_overlapping_regions(instruments)
FindOverlappingRegions ==
    /\ Called
    /\ op = "none"
    /\ \E instruments \in CoverageLists :
         /\ op' = "find_overlapping_regions"
         /\ arg' = instruments
         /\ ret' = [err |-> "", val |-> find_overlapping_regions(instruments)]
         /\ UNCHANGED <<args, curve, inst>>

NextCoverage == AnalyzeForwardSwapCoverage \/ FindOverlappingRegions

SpecCoverage == Init /\ [][NextCoverage]_vars

(***************************************************************************)
(* The bisection of _bootstrap_single_rate, for a known present value      *)
(* coupon_amount * coupon_pv + principal_pv and a tenor.                   *)
(***************************************************************************)
KnownPvInputs == {RNorm(k, 40) : k \in 0..MaxKnownPv}

\* the loop of lines 266-274 of bootstrapping.py, and what it returns
Bisection ==
    /\ Called
    /\ op = "none"
    /\ \E known_pv \in KnownPvInputs, tenor \in 1..MaxMaturity :
         /\ op' = "bisection"
         /\ arg' = [known_pv |-> known_pv, tenor |-> tenor]
         /\ ret' = Ok(bisection(BisectionSteps, R(0), RNorm(20, 100), known_pv, tenor))
         /\ UNCHANGED <<args, curve, inst>>

NextBisection == Bisection

SpecBisection == Init /\ [][NextBisection]_vars


(***************************************************************************)
(* Properties of curve construction and get_rate (specification Spec).     *)
(***************************************************************************)
Built == curve # NoCurve
IsNode(t) == \E i \in DOMAIN curve.tenors : curve.tenors[i] = t
NodeRate(t) == curve.rates[CHOOSE i \in DOMAIN curve.tenors : curve.tenors[i] = t]
IsHybrid == Built /\ curve.interpolation_method = "hybrid"

\* C1: node round trip. For every constructed curve of every interpolation
\* mode and every original node i, get_rate(tenors[i]) returns rates[i].
C1_NodeRoundTrip ==
    (op = "get_rate" /\ IsNode(arg)) => ret = Ok(NodeRate(arg))

\* the rate of the largest node whose tenor is <= t, with the first and last
\* rates outside the node range
StepRate(tenors, rates, t) ==
    IF t <= tenors[1] THEN rates[1]
    ELSE IF t >= tenors[Len(tenors)] THEN rates[Len(tenors)]
    ELSE rates[CHOOSE i \in DOMAIN tenors :
                 /\ tenors[i] <= t
                 /\ \A j \in DOMAIN tenors : tenors[j] <= t => j <= i]

\* C2: FLAT mode is a step function. get_rate(t) never raises and returns
\* rates[0] for t <= tenors[0], rates[-1] for t >= tenors[-1], and otherwise
\* the rate of the largest node whose tenor is <= t.
C2_FlatStepFunction ==
    (op = "get_rate" /\ curve.interpolation_method = "flat")
        => ret = Ok(StepRate(curve.tenors, curve.rates, arg))

\* a flat curve queried strictly inside an interval whose two end nodes carry
\* different rates, answered with the left node's rate
C2_Witness ==
    /\ op = "get_rate" /\ curve.interpolation_method = "flat"
    /\ \E i \in 1..(Len(curve.tenors) - 1) :
         /\ curve.tenors[i] < arg /\ arg < curve.tenors[i + 1]
         /\ curve.rates[i] # curve.rates[i + 1]
         /\ ret = Ok(curve.rates[i])

\* the two sub-interpolators of a hybrid curve, evaluated at t
PreEval(t) ==
    get_rate_from_interpolator(curve, t, curve.pre_interpolator, curve.pre_cutoff_method)
PostEval(t) ==
    get_rate_from_interpolator(curve, t, curve.post_interpolator, curve.post_cutoff_method)
BothRanges == Len(curve.pre_tenors) > 0 /\ Len(curve.post_tenors) > 0

\* C5: hybrid routing when both sub-ranges are non-empty. Below the cutoff
\* get_rate is the pre-cutoff sub-interpolator, above it the post-cutoff
\* sub-interpolator, and at the cutoff the two sub-interpolators return the
\* same rate.
C5_HybridRouting ==
    (IsHybrid /\ BothRanges) =>
        /\ (op = "get_rate" /\ arg < curve.cutoff_tenor) => ret = PreEval(arg)
        /\ (op = "get_rate" /\ arg > curve.cutoff_tenor) => ret = PostEval(arg)
        /\ PreEval(curve.cutoff_tenor) = PostEval(curve.cutoff_tenor)

\* a sub-interpolator of the given method over all the nodes, evaluated at t
OverAllNodes(id, method, t) ==
    get_rate_from_interpolator(curve, t,
        create_single_interpolator(id, curve.tenors, curve.rates, method).f, method)
NoNodeUpToCutoff == \A i \in DOMAIN curve.tenors : curve.tenors[i] > curve.cutoff_tenor
NoNodeAfterCutoff == \A i \in DOMAIN curve.tenors : curve.tenors[i] <= curve.cutoff_tenor

\* C6: hybrid with an empty sub-range. With no node <= cutoff every query is
\* answered by the post-cutoff method over all nodes; with the cutoff at or
\* beyond the last node every query is answered by the pre-cutoff method over
\* all nodes; get_rate raises in neither case.
C6_EmptySubRange ==
    (op = "get_rate" /\ IsHybrid) =>
        /\ NoNodeUpToCutoff =>
             (ret.err = "" /\ ret = OverAllNodes("post", curve.post_cutoff_method, arg))
        /\ (~NoNodeUpToCutoff /\ NoNodeAfterCutoff) =>
             (ret.err = "" /\ ret = OverAllNodes("pre", curve.pre_cutoff_method, arg))

\* the four rejected argument shapes of the constructor
LengthMismatch == Len(args.tenors) # Len(args.rates)
NotIncreasing ==
    \E i, j \in DOMAIN args.tenors : i < j /\ args.tenors[i] >= args.tenors[j]
UnknownMode == args.interpolation_method \notin ValidModes
MissingCutoff == args.interpolation_method = "hybrid" /\ args.cutoff_tenor = NoCutoff
Rejected == LengthMismatch \/ NotIncreasing \/ UnknownMode \/ MissingCutoff
ValidSubModeArgs ==
    args.pre_cutoff_method \in ValidSubModes /\ args.post_cutoff_method \in ValidSubModes

\* C7 as claimed: construction fails with ValueError and yields no curve
\* whenever the lengths differ, the tenors are not strictly increasing, the
\* mode name is unknown or a hybrid curve has no cutoff_tenor; in every other
\* case with valid sub-modes it succeeds.
C7_ConstructionValidation ==
    op = "YieldCurve" =>
        /\ Rejected => (ret.err = "ValueError" /\ curve = NoCurve)
        /\ (~Rejected /\ ValidSubModeArgs) => (ret.err = "" /\ curve # NoCurve)

\* C7 amended: the same, the success half for node lists that are not empty.
C7_ConstructionValidationNonEmpty ==
    op = "YieldCurve" =>
        /\ Rejected => (ret.err = "ValueError" /\ curve = NoCurve)
        /\ (~Rejected /\ ValidSubModeArgs /\ Len(args.tenors) >= 1)
             => (ret.err = "" /\ curve # NoCurve)

\* a tenor list that is not strictly increasing, with as many rates, refused
C7_Witness ==
    /\ op = "YieldCurve" /\ ~LengthMismatch /\ NotIncreasing /\ ~UnknownMode
    /\ ret.err = "ValueError" /\ curve = NoCurve

\* C8: a hybrid curve with an unknown pre_cutoff_method or post_cutoff_method
\* is refused at construction with a ValueError, for every cutoff_tenor and
\* node set.
C8_UnknownSubModeRejected ==
    (/\ op = "YieldCurve" /\ args.interpolation_method = "hybrid"
     /\ ~Rejected /\ ~ValidSubModeArgs)
        => (ret.err = "ValueError" /\ curve = NoCurve)


(***************************************************************************)
(* Properties of shifting, risk measures and immutability (specification   *)
(* SpecRisk).                                                              *)
(***************************************************************************)
ShiftDecimal(s) == RNorm(s, 10000)

\* C3: shift_curve(bp) on a curve of any interpolation mode returns a new
\* curve with the same tenors, every rate increased by bp/10000, and the
\* same interpolation mode, cutoff_tenor, pre_cutoff_method and
\* post_cutoff_method; in particular it succeeds on a hybrid curve.
C3_ShiftPreservesCurve ==
    op = "shift_curve" =>
        /\ ret.err = ""
        /\ ret.val.tenors = curve.tenors
        /\ Len(ret.val.rates) = Len(curve.rates)
        /\ \A i \in DOMAIN curve.rates :
             ret.val.rates[i] = RAdd(curve.rates[i], ShiftDecimal(arg))
        /\ ret.val.interpolation_method = curve.interpolation_method
        /\ ret.val.cutoff_tenor = curve.cutoff_tenor
        /\ ret.val.pre_cutoff_method = curve.pre_cutoff_method
        /\ ret.val.post_cutoff_method = curve.post_cutoff_method

\* the price on the curve shifted by s basis points
ShiftedPrice(s) == price(inst, shift_curve(curve, s).obj).val

\* C4: for any instrument and any valid curve, get_dv01(curve, s) returns
\* (price(curve) - price(curve.shift_curve(s))) / (s/10000) and
\* get_convexity(curve, s) returns
\* (price(shift(+s)) + price(shift(-s)) - 2 price(curve)) / (s/10000)^2,
\* without raising.
C4_RiskMeasures ==
    /\ op = "get_dv01" =>
         /\ ret.err = ""
         /\ ret.val = RDiv(RSub(price(inst, curve).val, ShiftedPrice(arg)),
                           ShiftDecimal(arg))
    /\ op = "get_convexity" =>
         /\ ret.err = ""
         /\ ret.val = RDiv(RSub(RAdd(ShiftedPrice(arg), ShiftedPrice(-arg)),
                                RMul(R(2), price(inst, curve).val)),
                           RMul(ShiftDecimal(arg), ShiftDecimal(arg)))

\* C9: curves and instruments are never mutated. No call on the curve or on
\* an instrument given the curve changes the curve's tenors, rates,
\* interpolation mode or cutoff parameters, or any attribute of the
\* instrument (payment_dates included).
C9_NeverMutated ==
    [][/\ curve'.tenors = curve.tenors
       /\ curve'.rates = curve.rates
       /\ curve'.interpolation_method = curve.interpolation_method
       /\ curve'.cutoff_tenor = curve.cutoff_tenor
       /\ curve'.pre_cutoff_method = curve.pre_cutoff_method
       /\ curve'.post_cutoff_method = curve.post_cutoff_method
       /\ (inst # NoInst => inst' = inst)]_vars

\* a swap's get_dv01 has priced on a shifted copy of the curve, and the
\* curve still carries the rates it was constructed with
C9_Witness ==
    /\ op = "get_dv01" /\ ret.err = "" /\ IsFinite(ret.val) /\ ret.val # R(0)
    /\ inst.kind = "IRSwap" /\ Len(inst.payment_dates) >= 2
    /\ curve.rates = args.rates /\ curve.tenors = args.tenors


(***************************************************************************)
(* Properties of the swap schedule (specification SpecSwap).               *)
(***************************************************************************)
\* ceil(a / b) for a >= 0, b > 0
Ceil(a, b) == (a + b - 1) \div b

\* C10: the payment schedule of every swap with start_date < maturity is
\* non-empty and strictly increasing, starts at start_date + 1/frequency
\* and steps by 1/frequency on its regular dates, lies in
\* (start_date, maturity], ends at maturity (on a shorter stub when the
\* length is not a whole number of periods) and has
\* ceil((maturity - start_date) * frequency) dates.
C10_PaymentSchedule ==
    inst.kind = "IRSwap" =>
        LET dates == inst.payment_dates
            period == TicksPerYear \div inst.frequency
            length == inst.maturity - inst.start_date
            whole == length \div period
        IN  /\ Len(dates) >= 1
            /\ \A i \in 1..(Len(dates) - 1) : dates[i] < dates[i + 1]
            /\ \A i \in 1..whole :
                 i <= Len(dates) /\ dates[i] = inst.start_date + i * period
            /\ \A i \in DOMAIN dates :
                 inst.start_date < dates[i] /\ dates[i] <= inst.maturity
            /\ dates[Len(dates)] = inst.maturity
            /\ (length % period # 0) =>
                 dates[Len(dates)] - inst.start_date < (whole + 1) * period
            /\ Len(dates) = Ceil(length * inst.frequency, TicksPerYear)

\* a forward-starting swap whose last period is a stub shorter than the
\* regular period
C10_Witness ==
    /\ op = "IRSwap" /\ inst.kind = "IRSwap" /\ inst.start_date > 0
    /\ Len(inst.payment_dates) >= 3
    /\ LET n == Len(inst.payment_dates)
       IN  inst.payment_dates[n] - inst.payment_dates[n - 1]
             < inst.payment_dates[n - 1] - inst.payment_dates[n - 2]


\* C11: constructing a swap with start_date >= maturity raises ValueError
\* and leaves no swap; with start_date < maturity it succeeds, and of the
\* swap made is_forward_starting is true exactly when start_date is beyond
\* 1e-6 (at least one tick), forward_tenor_range is (start_date, maturity)
\* and effective_tenor is maturity.
C11_SwapConstruction ==
    /\ op = "IRSwap" =>
         IF arg[1] >= arg[2]
         THEN ret.err = "ValueError" /\ inst = NoInst
         ELSE /\ ret.err = "" /\ inst.kind = "IRSwap"
              /\ inst.start_date = arg[1] /\ inst.maturity = arg[2]
              /\ inst.frequency = arg[3]
    /\ op = "is_forward_starting" => ret = Ok(inst.start_date >= 1)
    /\ op = "forward_tenor_range" => ret = Ok(<<inst.start_date, inst.maturity>>)
    /\ op = "effective_tenor" => ret = Ok(inst.maturity)

\* is_forward_starting has answered True on a swap that starts after today
C11_Witness ==
    /\ op = "is_forward_starting" /\ ret = Ok(TRUE)
    /\ inst.kind = "IRSwap" /\ inst.start_date > 0 /\ inst.start_date < inst.maturity



(***************************************************************************)
(* Properties of swap pricing (specification SpecRisk).                    *)
(***************************************************************************)
\* the discount factor of every date of the swap is there and positive
PositiveDfs(self, c) ==
    \A t \in {self.start_date, self.maturity}
               \cup {self.payment_dates[i] : i \in DOMAIN self.payment_dates} :
        get_discount_factor(c, t).err = ""
        /\ RLt(R(0), get_discount_factor(c, t).val)

\* sum of DF(payment_date) / frequency
Annuity(self, c) ==
    RSum([i \in DOMAIN self.payment_dates |->
            RDiv(get_discount_factor(c, self.payment_dates[i]).val,
                 R(self.frequency))])

\* the swap rebuilt with another fixed rate
Refixed(self, fixed_rate) == [self EXCEPT !.fixed_rate = fixed_rate]

\* C12: for every swap and every curve whose discount factors at the swap's
\* dates are positive, price equals
\* (get_par_rate(curve) - fixed_rate) * annuity * notional with annuity the
\* sum of DF(payment_date) / frequency; the swap rebuilt at its par rate
\* prices to zero, with a fixed rate above par to a negative price and with
\* one below par to a positive price.
C12_ParRateIdentity ==
    (inst.kind = "IRSwap" /\ PositiveDfs(inst, curve)) =>
        /\ op = "price" =>
             ret = Ok(RMul(RMul(RSub(swap_get_par_rate(inst, curve).val,
                                     inst.fixed_rate),
                                Annuity(inst, curve)),
                           inst.notional))
        /\ op = "swap.get_par_rate" =>
             /\ ret.err = "" /\ IsFinite(ret.val)
             /\ price(Refixed(inst, ret.val), curve) = Ok(R(0))
             /\ \A k \in 1..MaxRate :
                  /\ RLt(price(Refixed(inst, RAdd(ret.val, Rate(k))), curve).val, R(0))
                  /\ RLt(R(0), price(Refixed(inst, RSub(ret.val, Rate(k))), curve).val)

\* a forward-starting swap with a final stub has been priced, away from
\* par, on a curve with positive discount factors
C12_Witness ==
    /\ op = "price" /\ ret.err = "" /\ IsFinite(ret.val) /\ ret.val # R(0)
    /\ inst.kind = "IRSwap" /\ inst.start_date > 0
    /\ Len(inst.payment_dates) >= 2
    /\ PositiveDfs(inst, curve)


\* the spot-starting swap of a tenor and frequency, with unit notional
SpotSwap(tenor, frequency, fixed_rate) ==
    IRSwap(0, tenor, fixed_rate, frequency, R(1)).obj

\* C13: for every curve, every tenor > 0 and every frequency,
\* curve.get_par_rate(tenor, frequency) equals
\* IRSwap(0, tenor, ., frequency).get_par_rate(curve), and the spot swap
\* with that fixed rate prices to zero, also when the tenor is not a whole
\* number of coupon periods.
C13_CurveParIsSwapPar ==
    (op = "curve.get_par_rate" /\ arg[1] > 0) =>
        /\ ret = swap_get_par_rate(SpotSwap(arg[1], arg[2], R(0)), curve)
        /\ ret.err = "" => price(SpotSwap(arg[1], arg[2], ret.val), curve) = Ok(R(0))


\* the coupon sum curve.get_par_rate(tenor, frequency) divides by
CouponSum(c, tenor, frequency) ==
    RSum(Vals(coupon_dfs(c, (tenor * frequency) \div TicksPerYear,
                         TicksPerYear \div frequency)))

\* C14: par-rate solving never divides by a zero annuity: swap.get_par_rate
\* and curve.get_par_rate raise ValueError whenever the annuity they divide
\* by is zero (also when there is no coupon date up to the tenor), and
\* curve.get_par_rate raises ValueError for every tenor <= 0.
C14_ZeroAnnuityRaises ==
    /\ op = "curve.get_par_rate" =>
         /\ arg[1] <= 0 => ret.err = "ValueError"
         /\ (arg[1] > 0 /\ CouponSum(curve, arg[1], arg[2]) = R(0)) =>
              ret.err = "ValueError"
    /\ op = "swap.get_par_rate" =>
         (Annuity(inst, curve) = R(0) => ret.err = "ValueError")


\* the swap rebuilt with its notional times k
Scaled(self, k) == [self EXCEPT !.notional = RMul(k, self.notional)]
Factors == {RNorm(1, 2), R(2), R(10)}

\* C16: the price of a swap is linear in its notional: on every curve, the
\* swap with notional k * N prices to k times the price of the swap with
\* notional N.
C16_PriceLinearInNotional ==
    (op = "price" /\ inst.kind = "IRSwap") =>
        \A k \in Factors :
            /\ price(Scaled(inst, k), curve).err = ret.err
            /\ price(Scaled(inst, k), curve).val = RMul(k, ret.val)

\* a swap of notional 2 has a price that is neither zero nor nan
C16_Witness ==
    /\ op = "price" /\ inst.kind = "IRSwap" /\ inst.notional = R(2)
    /\ ret.err = "" /\ IsFinite(ret.val) /\ ret.val # R(0)

\* C17: get_forward_rate_sensitivity(curve, a, b) is exactly 0 for every
\* segment [a, b] not fully inside [start_date, maturity], and is
\* notional * (b - a) * (DF(a) + DF(b)) / 2 * 1e-4 when start_date <= a and
\* b <= maturity.
C17_SensitivityAllOrNothing ==
    op = "get_forward_rate_sensitivity" =>
        IF inst.start_date <= arg[1] /\ arg[2] <= inst.maturity
        THEN ret = Ok(RMul(RMul(RMul(inst.notional, Years(arg[2] - arg[1])),
                                RDiv(RAdd(get_discount_factor(curve, arg[1]).val,
                                          get_discount_factor(curve, arg[2]).val),
                                     R(2))),
                           RNorm(1, 10000)))
        ELSE ret = Ok(R(0))

\* a forward-starting swap has been asked for a segment that begins before
\* its start and ends inside it
C17_Witness ==
    /\ op = "get_forward_rate_sensitivity" /\ ret = Ok(R(0))
    /\ arg[1] < inst.start_date /\ inst.start_date < arg[2]
    /\ arg[2] <= inst.maturity

\* the date before the i-th payment date
PrevDate(self, i) == IF i = 1 THEN self.start_date ELSE self.payment_dates[i - 1]

\* C18: a swap's get_cashflows returns 'dates', 'fixed' and 'floating',
\* each with len(payment_dates) entries; every fixed entry is
\* fixed_rate / frequency * notional, also on a final stub, and the i-th
\* floating entry is forward_rate(previous date, payment_dates[i]) /
\* frequency * notional, the previous date of the first payment being
\* start_date.
C18_SwapCashflows ==
    (op = "get_cashflows" /\ inst.kind = "IRSwap") =>
        /\ ret.err = ""
        /\ ret.val.keys = {"dates", "fixed", "floating"}
        /\ ret.val.dates = inst.payment_dates
        /\ Len(ret.val.fixed) = Len(inst.payment_dates)
        /\ Len(ret.val.floating) = Len(inst.payment_dates)
        /\ \A i \in DOMAIN inst.payment_dates :
             /\ ret.val.fixed[i] =
                  RMul(RDiv(inst.fixed_rate, R(inst.frequency)), inst.notional)
             /\ ret.val.floating[i] =
                  RMul(RDiv(get_forward_rate(curve, PrevDate(inst, i),
                                             inst.payment_dates[i]).val,
                            R(inst.frequency)),
                       inst.notional)

\* the cashflows of a forward-starting swap with a final stub, with forward
\* rates that are not zero
C18_Witness ==
    /\ op = "get_cashflows" /\ inst.kind = "IRSwap" /\ ret.err = ""
    /\ inst.start_date > 0 /\ Len(ret.val.floating) >= 2
    /\ inst.payment_dates[2] - inst.payment_dates[1]
         < inst.payment_dates[1] - inst.start_date
    /\ \A i \in DOMAIN ret.val.floating :
         IsFinite(ret.val.floating[i]) /\ ret.val.floating[i] # R(0)


(***************************************************************************)
(* Properties of forward rates (specification SpecForward).                *)
(***************************************************************************)
\* C15: get_forward_rate(t1, t2) raises ValueError exactly when t1 >= t2
\* and for t1 < t2 returns ln(DF(t1) / DF(t2)) / (t2 - t1); so pricing a
\* future with start_date >= maturity, or listing its cashflows, raises
\* ValueError, and a swap's get_cashflows never does.
C15_ForwardRateRange ==
    /\ op = "get_forward_rate" =>
         IF arg[1] >= arg[2]
         THEN ret = Raise("ValueError")
         ELSE ret = Ok(RDiv(NpLog(RDiv(get_discount_factor(curve, arg[1]).val,
                                       get_discount_factor(curve, arg[2]).val)),
                            Years(arg[2] - arg[1])))
    /\ (op \in {"price", "get_cashflows"} /\ inst.kind = "IRFuture") =>
         (ret.err = "ValueError" <=> inst.start_date >= inst.maturity)
    /\ (op = "get_cashflows" /\ inst.kind = "IRSwap") =>
         /\ ret.err = ""
         /\ \A i \in 1..(Len(inst.payment_dates) - 1) :
              inst.payment_dates[i] < inst.payment_dates[i + 1]

\* a future that starts when it matures has been priced
C15_Witness ==
    /\ op = "price" /\ inst.kind = "IRFuture"
    /\ inst.start_date = inst.maturity /\ ret.err = "ValueError"


(***************************************************************************)
(* Properties of bootstrapping (specification SpecBoot).                   *)
(***************************************************************************)
\* the call raised a validation error before any of its steps
FailedFast == ret.err = "ValueError" /\ ret.steps = <<>> /\ curve = NoCurve

\* C19: bootstrap_curve raises a validation error when the instrument and
\* market price lists differ in length, and bootstrap_from_swaps when the
\* swap rate and swap tenor lists do, in both cases before any tenor
\* extraction, sorting, optimization or curve construction.
C19_FailsFastOnLengthMismatch ==
    /\ (op = "bootstrap_curve" /\ Len(arg.instruments) # Len(arg.market_prices))
           => FailedFast
    /\ (op = "bootstrap_from_swaps" /\ Len(arg.swap_rates) # Len(arg.swap_tenors))
           => FailedFast

\* a call with two instruments and one price has failed
C19_Witness ==
    /\ op = "bootstrap_curve"
    /\ Len(arg.instruments) = 2 /\ Len(arg.market_prices) = 1
    /\ ret.err = "ValueError" /\ ret.steps = <<>>

\* the quotes of the call have pairwise different tenors
DistinctQuotes ==
    \A i, j \in DOMAIN arg.swap_tenors : i # j => arg.swap_tenors[i] # arg.swap_tenors[j]

\* the call got as many rates as tenors, at least one, each rate strictly
\* between 0 and 0.20
QuotesInRange ==
    /\ Len(arg.swap_rates) = Len(arg.swap_tenors) /\ Len(arg.swap_tenors) > 0
    /\ \A i \in DOMAIN arg.swap_rates :
          RLt(R(0), arg.swap_rates[i]) /\ RLt(arg.swap_rates[i], RNorm(20, 100))

\* C27: bootstrap_from_swaps returns a curve with one node per quote, the
\* tenors sorted ascending, the first zero rate equal to the swap rate of
\* the shortest tenor and every zero rate strictly between 0 and 0.20;
\* duplicate tenors make it fail with a validation error.
C27_FromSwapsCurve ==
    /\ (op = "bootstrap_from_swaps" /\ QuotesInRange /\ DistinctQuotes) =>
          /\ ret.err = ""
          /\ Len(curve.tenors) = Len(arg.swap_tenors)
          /\ StrictlyIncreasing(curve.tenors)
          /\ {curve.tenors[i] : i \in DOMAIN curve.tenors}
                 = {arg.swap_tenors[i] : i \in DOMAIN arg.swap_tenors}
          /\ \E i \in DOMAIN arg.swap_tenors :
                /\ arg.swap_tenors[i] = curve.tenors[1]
                /\ arg.swap_rates[i] = curve.rates[1]
          /\ \A i \in DOMAIN curve.rates :
                RLt(R(0), curve.rates[i]) /\ RLt(curve.rates[i], RNorm(20, 100))
    /\ (op = "bootstrap_from_swaps" /\ QuotesInRange /\ ~DistinctQuotes) =>
          ret.err = "ValueError"


\* the maturities of the instruments of the call
Maturities == {arg.instruments[i].maturity : i \in DOMAIN arg.instruments}

ConvergedCurve ==
    bootstrap_curve(arg.method, arg.instruments, arg.market_prices,
                    arg.target_tenors, [arg.result EXCEPT !.success = TRUE]).obj

\* the call returned a curve built from the rates minimize found
BestEffortCurve == ret.err = "" /\ curve # NoCurve /\ curve.rates = arg.result.x

\* C21: when minimize reports failure, bootstrap_curve raises nothing,
\* returns a curve built from the best rates found, and the returned result
\* carries the non-convergence, so that it differs from the result of a
\* converged run with the same rates.
C21_NonConvergenceAnnotated ==
    (op = "bootstrap_curve" /\ ret.warned) =>
        BestEffortCurve /\ curve # ConvergedCurve


\* the objective of the call at the given rates
ObjectiveAt(rates) ==
    objective_function(arg.method, arg.instruments, arg.market_prices,
                       extract_tenors(arg.instruments), rates)

\* C22: for every instrument list and market prices, a market price of 0
\* included, the objective evaluates to a finite number, at the initial
\* rates and at the rates minimize returns.  Stated for the calls whose
\* prices are finite (two nodes, not log_linear), where only the target
\* decides.
C22_ObjectiveFiniteAtZeroTarget ==
    (op = "bootstrap_curve" /\ Len(arg.instruments) = Len(arg.market_prices)
        /\ Len(extract_tenors(arg.instruments)) = 2
        /\ arg.method # "log_linear") =>
        /\ ObjectiveAt(get_initial_rates(extract_tenors(arg.instruments))).err = ""
        /\ IsFinite(ObjectiveAt(get_initial_rates(extract_tenors(arg.instruments))).val)
        /\ ObjectiveAt(arg.result.x).err = ""
        /\ IsFinite(ObjectiveAt(arg.result.x).val)


\* the instruments of the call are swaps no two of which share more than an
\* end point
CleanPartition ==
    /\ Len(arg.instruments) = MaxInstruments
    /\ \A i \in DOMAIN arg.instruments : arg.instruments[i].kind = "IRSwap"
    /\ \A i, j \in DOMAIN arg.instruments :
         i # j => \/ arg.instruments[i].maturity <= arg.instruments[j].start_date
                  \/ arg.instruments[j].maturity <= arg.instruments[i].start_date

\* some two instruments of the call cover a common interval
Overlapping ==
    \E i, j \in DOMAIN arg.instruments :
       /\ i # j
       /\ arg.instruments[i].start_date < arg.instruments[j].maturity
       /\ arg.instruments[j].start_date < arg.instruments[i].maturity

AllPar ==
    /\ Len(arg.market_prices) = Len(arg.instruments)
    /\ \A i \in DOMAIN arg.market_prices : arg.market_prices[i] = R(0)

\* no rate vector minimize could have returned has a smaller objective than
\* the one it returned
BestFound ==
    \A r \in MinimizeResults(Len(arg.result.x)) :
       ~RLt(ObjectiveAt(r.x).val, ObjectiveAt(arg.result.x).val)

\* instrument i prices on the returned curve to within 1e-3 of its target
Reprices(i) ==
    /\ price(arg.instruments[i], curve).err = ""
    /\ RLe(RSub(price(arg.instruments[i], curve).val, arg.market_prices[i]),
           RNorm(1, 1000))
    /\ RLe(RNorm(-1, 1000),
           RSub(price(arg.instruments[i], curve).val, arg.market_prices[i]))

\* C23: bootstrapping non-overlapping par swaps (market prices all 0)
\* returns a curve on which every instrument reprices to within 1e-3 of its
\* target, even when minimize returns the best rates there are; and
\* bootstrapping overlapping instruments returns a curve without raising.
C23_ParSwapsReprice ==
    /\ (op = "bootstrap_curve" /\ CleanPartition /\ AllPar
           /\ arg.method # "log_linear" /\ BestFound) =>
           /\ ret.err = ""
           /\ \A i \in DOMAIN arg.instruments : Reprices(i)
    /\ (op = "bootstrap_curve" /\ Overlapping /\ arg.method # "log_linear"
           /\ Len(arg.market_prices) = Len(arg.instruments)) =>
           ret.err = "" /\ curve # NoCurve


(***************************************************************************)
(* Properties of the diagnostics (specification SpecCoverage).             *)
(***************************************************************************)
\* how many instruments of the call have the given start, maturity and type
InstrumentsLike(segment) ==
    Cardinality({i \in DOMAIN arg :
        /\ arg[i].start_date = segment.start_tenor
        /\ arg[i].maturity = segment.end_tenor
        /\ segment.type = (IF arg[i].start_date > 0 THEN "forward" ELSE "spot")})

\* how many reported segments equal the given one
SegmentsLike(segment) ==
    Cardinality({k \in DOMAIN ret.val.coverage_segments :
                    ret.val.coverage_segments[k] = segment})

\* C24: for every instrument list, the empty one included, the coverage
\* summary reports the number of instruments, the numbers with start_date > 0
\* and with start_date = 0 (which add up to the total), min(start_date) and
\* max(maturity), and one segment {start_tenor, end_tenor, type} per
\* instrument, ascending by start_tenor; no instruments give zero counts and
\* no segments.
C24_CoverageSummary ==
    op = "analyze_forward_swap_coverage" =>
        /\ ret.val.total_instruments = Len(arg)
        /\ ret.val.forward_starting_count
               = Cardinality({i \in DOMAIN arg : arg[i].start_date > 0})
        /\ ret.val.spot_starting_count
               = Cardinality({i \in DOMAIN arg : arg[i].start_date = 0})
        /\ ret.val.forward_starting_count + ret.val.spot_starting_count
               = ret.val.total_instruments
        /\ \A i \in DOMAIN arg : /\ ret.val.min_tenor <= arg[i].start_date
                                 /\ arg[i].maturity <= ret.val.max_tenor
        /\ arg # <<>> => /\ \E i \in DOMAIN arg : arg[i].start_date = ret.val.min_tenor
                         /\ \E i \in DOMAIN arg : arg[i].maturity = ret.val.max_tenor
        /\ Len(ret.val.coverage_segments) = Len(arg)
        /\ \A k \in DOMAIN ret.val.coverage_segments :
              /\ SegmentsLike(ret.val.coverage_segments[k])
                     = InstrumentsLike(ret.val.coverage_segments[k])
              /\ k > 1 => ret.val.coverage_segments[k - 1].start_tenor
                              <= ret.val.coverage_segments[k].start_tenor
        /\ arg = <<>> => /\ ret.val.total_instruments = 0
                         /\ ret.val.forward_starting_count = 0
                         /\ ret.val.spot_starting_count = 0
                         /\ ret.val.coverage_segments = <<>>

\* the analysis of a forward swap listed before a spot swap reported the
\* spot swap's segment first
C24_Witness ==
    /\ op = "analyze_forward_swap_coverage"
    /\ Len(arg) = MaxCoverage
    /\ arg[1].start_date > 0 /\ arg[2].start_date = 0
    /\ ret.val.coverage_segments[1].type = "spot"
    /\ ret.val.forward_starting_count = 2


\* the instruments of the call among which overlaps are sought
AllInstruments == DOMAIN arg
Swaps == {i \in DOMAIN arg : arg[i].kind = "IRSwap"}

\* the sorted start dates and maturities of the instruments in among
BreakpointsOf(among) ==
    SortedSeq({arg[i].start_date : i \in among} \cup {arg[i].maturity : i \in among})

\* the instruments in among whose period contains all of [lo, hi]
Covering(among, lo, hi) ==
    {i \in among : arg[i].start_date <= lo /\ hi <= arg[i].maturity}

\* the interval [lo, hi] is reported as an overlapping region
Reported(lo, hi) ==
    \E k \in DOMAIN ret.val : ret.val[k].start = lo /\ ret.val[k].end = hi

\* the k-th reported region lists exactly the instruments in among that
\* cover it, in the order of the call
ListsCovering(among, k) ==
    /\ Len(ret.val[k].instruments)
           = Cardinality(Covering(among, ret.val[k].start, ret.val[k].end))
    /\ \A i \in Covering(among, ret.val[k].start, ret.val[k].end) :
          Cardinality({n \in DOMAIN ret.val[k].instruments :
                          ret.val[k].instruments[n] = instrument_str(arg[i])})
              = Cardinality({j \in Covering(among, ret.val[k].start, ret.val[k].end) :
                                instrument_str(arg[j]) = instrument_str(arg[i])})

\* the overlap report is as claimed when the instruments in among are the
\* ones considered
OverlapsAmong(among) ==
    /\ \A b \in 1..(Len(BreakpointsOf(among)) - 1) :
          Reported(BreakpointsOf(among)[b], BreakpointsOf(among)[b + 1])
              <=> Cardinality(Covering(among, BreakpointsOf(among)[b],
                                       BreakpointsOf(among)[b + 1])) >= 2
    /\ \A k \in DOMAIN ret.val :
          /\ \E b \in 1..(Len(BreakpointsOf(among)) - 1) :
                /\ ret.val[k].start = BreakpointsOf(among)[b]
                /\ ret.val[k].end = BreakpointsOf(among)[b + 1]
          /\ ListsCovering(among, k)
          /\ k > 1 => ret.val[k - 1].end <= ret.val[k].start
    /\ (\A i, j \in among :
           i # j => \/ arg[i].maturity <= arg[j].start_date
                    \/ arg[j].maturity <= arg[i].start_date)
          => ret.val = <<>>

C26_LogLinearPositivity ==
    (op = "get_discount_factor" /\ curve.interpolation_method = "log_linear"
        /\ Len(curve.tenors) >= 2 /\ arg >= 0 /\ \A i \in DOMAIN curve.rates : RLe(R(0), curve.rates[i])) =>
        /\ ret.err = ""
        /\ RLt(R(0), ret.val)
        /\ RLe(ret.val, R(1))


(***************************************************************************)
(* Properties of the bisection (specification SpecBisection).              *)
(***************************************************************************)
\* the objective of the call at a rate
ObjectiveOf(rate) == single_objective(rate, arg.known_pv, arg.tenor)

\* the objective has a root in [0, 0.20]: being decreasing, it is not
\* negative at 0 and not positive at 0.20
RootInBracket ==
    RLe(R(0), ObjectiveOf(R(0))) /\ RLe(ObjectiveOf(RNorm(20, 100)), R(0))

\* the width of the bracket before its last halving: 0.20 / 2^(steps - 1)
FinalWidth == RNorm(20, 100 * 2^(BisectionSteps - 1))

\* C28: the objective of the bisection is strictly decreasing in the rate,
\* and when it has a root in [0, 0.20] the returned rate is within the
\* final interval width of that root: the objective changes sign between
\* the returned rate minus and plus that width.
C28_BisectionFindsRoot ==
    op = "bisection" =>
        /\ RLt(ObjectiveOf(RNorm(20, 100)), ObjectiveOf(R(0)))
        /\ RootInBracket =>
              /\ RLe(R(0), ObjectiveOf(RSub(ret.val, FinalWidth)))
              /\ RLe(ObjectiveOf(RAdd(ret.val, FinalWidth)), R(0))


(***************************************************************************)
(* Hybrid curves with a flat pre-cutoff method (specification Spec).       *)
(***************************************************************************)
\* get_rate(t) of a pure flat curve over the nodes of the current curve
PureFlatRate(t) ==
    get_rate(YieldCurve(curve.tenors, curve.rates, "flat", NoCutoff, "flat", "cubic").obj, t)

FlatPreCutoff ==
    /\ IsHybrid
    /\ curve.pre_cutoff_method = "flat"
    /\ \E i \in DOMAIN curve.tenors : curve.tenors[i] <= curve.cutoff_tenor

CutoffOnNode == \E i \in DOMAIN curve.tenors : curve.tenors[i] = curve.cutoff_tenor

\* C29: on a hybrid curve whose pre-cutoff method is flat and which has a
\* node at or below the cutoff, get_rate(t) for every t strictly below the
\* cutoff equals get_rate(t) of a pure flat curve over the same nodes,
\* whether or not the cutoff is an original node.
C29_FlatPreCutoffIsPureFlat ==
    (op = "get_rate" /\ FlatPreCutoff /\ arg < curve.cutoff_tenor) =>
        ret = PureFlatRate(arg)

\* a query strictly between the first node and a cutoff that is not a node,
\* with nodes on both sides of the cutoff
C29_Witness ==
    /\ op = "get_rate"
    /\ FlatPreCutoff
    /\ BothRanges
    /\ ~CutoffOnNode
    /\ Len(curve.pre_tenors) >= 3
    /\ arg = curve.tenors[2]
    /\ arg < curve.cutoff_tenor
    /\ ret.err = ""
    /\ ret.val # curve.rates[1]


(***************************************************************************)
(* The target tenors of a bootstrap (specification SpecBoot).              *)
(***************************************************************************)
\* C30: the optional target_tenors argument of bootstrap_curve and of
\* YieldCurve.from_instruments determines the node grid of the returned
\* curve: when it is supplied the curve's tenors are target_tenors, and when
\* it is omitted they are the instrument maturities.
C30_TargetTenorsAreNodeGrid ==
    (op \in {"bootstrap_curve", "from_instruments"} /\ ret.err = "") =>
        IF arg.target_tenors = NoTargets
        THEN {curve.tenors[i] : i \in DOMAIN curve.tenors} = Maturities
        ELSE curve.tenors = arg.target_tenors

=============================================================================
